---- MODULE Spec2Model ----
(***************************************************************************)
(* Recording Cycle Scheduler of seam (MicrophonePanel in                   *)
(* app/src/renderer/App.tsx) and the part of the main process it talks to  *)
(* (the seam:transcribe-buffer handler of app/src/main.ts).                *)
(*                                                                         *)
(* The renderer is single threaded: every handler below runs to its next   *)
(* await or to its end without interruption, so one action is one task of  *)
(* the event loop.  What the event loop does not order is left free: the   *)
(* order in which timers, recorder stop events, getUserMedia results, IPC  *)
(* results and calls of startRecording/stopRecording are delivered.        *)
(*                                                                         *)
(* The only caller of startRecording passes isContinuous = true            *)
(* (App.tsx:1634), so the manual branch (App.tsx:1429-1482) is not         *)
(* modelled.                                                               *)
(*                                                                         *)
(* Three more components have a specification of their own: the            *)
(* Transcription Protocol (transcribeAudioFile, SpecProtocol), the         *)
(* seam:transcribe-buffer handler with its temp file (SpecHandler), and    *)
(* the speech worker (main.swift, SpecWorker).  Three functions are        *)
(* applied to inputs of any kind in SpecPayload (RecognitionPayload and    *)
(* average), SpecResolve (resolveSpeechBinary) and SpecMime                *)
(* (extensionFromMime), and validateAPIKey with getAIProviderConfig in     *)
(* SpecKey.  In each specification the variables of the other components   *)
(* stay as they start.                                                     *)
(*                                                                         *)
(* The scheduler has three more specifications: SpecCapture adds a         *)
(* recorder that can fail, SpecSummary the events of summary generation,   *)
(* and SpecSettling the fairness of the calls the renderer awaits.         *)
(* SpecWorkerFair is the worker with its threads scheduled fairly.         *)
(***************************************************************************)
EXTENDS Integers, FiniteSets, Sequences, TLC

\* Bounds of the model: recorders (capture cycles) and streams (runs) created.
MaxRecorders == 3
MaxStreams == 2
\* Bound: calls of generateAndUpdateSummary that have not run to their end.
MaxSummaries == 2

\* if (blob.size >= 25000)
MinChunkBytes == 25000
\* if (buffer.length < 50000)
MinBufferBytes == 50000
\* useRef<...| null>(null): the null of a ref that holds an id
Null == 0

Recorders == 1..MaxRecorders
Streams == 1..MaxStreams

\* Sizes of the data a recorder delivers with its dataavailable event: nothing,
\* and the sizes on both sides of the two thresholds.
SegmentSizes == {0, MinChunkBytes - 1, MinChunkBytes, MinBufferBytes}

\* continuousCycleTimerRef.current === null
NoTimer == <<"none", 0>>

\* What one run of the speech worker behind transcribeAudioFile can come to.
WorkerOutcomes == {"ok", "okEmptyText", "binaryMissing", "nonZeroExit", "emptyStdout",
                   "parseFailure", "timeoutEmpty", "authorizationDenied",
                   "recognitionUnavailable"}

\* What the seam:transcribe-buffer handler throws before it calls transcribeAudioFile.
HandlerRejections == {"bufferRequired", "bufferTooSmall"}

\* What window.seam.transcribeAudio can settle with.
Outcomes == WorkerOutcomes \cup HandlerRejections

\* The outcomes with which the promise of window.seam.transcribeAudio rejects.
FailureOutcomes == Outcomes \ {"ok", "okEmptyText"}

VARIABLES
    status,                  \* React state `status`
    continuousModeRef,       \* continuousModeRef.current (always set with `continuousMode`)
    streamRef,               \* streamRef.current: a stream or Null
    recorderRef,             \* recorderRef.current: a recorder or Null
    transcriptionQueueRef,   \* transcriptionQueueRef.current: the in-flight flag
    continuousCycleTimerRef, \* continuousCycleTimerRef.current: a timer or NoTimer
    timerRef,                \* timerRef.current: the elapsed-time interval or Null
    summaryTimerRef,         \* summaryTimerRef.current: the summary interval or Null
    chunksRef,               \* chunksRef.current: total bytes of the buffered parts
    recState,                \* MediaRecorder.state of each recorder ("unused": not created)
    recStream,               \* the stream each recorder records
    stopEventPending,        \* recorders whose dataavailable+stop task is queued
    streamState,             \* "unused" | "live" | "ended" (all tracks stopped)
    gumPending,              \* getUserMedia promises not settled yet
    cycleTimers,             \* pending setTimeout timers: <<"stop", r>>, <<"next", r>>
    intervalTimers,          \* pending elapsed-time intervals (named by their run)
    summaryTimers,           \* pending summary intervals (named by their run)
    requests,                \* recognition requests in flight
    summary,                 \* summary generation: the React state isSummaryGenerating,
                             \* the value of it each closure captured, and the calls
                             \* of generateSummary and getSummaries in flight
    dropped,                 \* history: segments transcribeChunk skipped at the gate
    lastOutcome,             \* history: "none", or whether the last settled request
                             \* resolved ("ok", or "okEmptyText" when the result's
                             \* text is empty) or rejected ("failed", or
                             \* "binaryMissing" when the worker binary was not found)
    stopJustReturned,        \* history: the last step was a stopRecording call
    stoppedSinceStart        \* history: stopRecording was called after the last startRecording call

vars == <<status, continuousModeRef, streamRef, recorderRef, transcriptionQueueRef,
          continuousCycleTimerRef, timerRef, summaryTimerRef, chunksRef, recState,
          recStream, stopEventPending, streamState, gumPending, cycleTimers,
          intervalTimers, summaryTimers, requests, summary, dropped,
          lastOutcome, stopJustReturned, stoppedSinceStart>>

\* The current state as one record, so that a handler is a function from state to
\* state and a call inside a handler is function application.
State ==
    [status |-> status, continuousModeRef |-> continuousModeRef, streamRef |-> streamRef,
     recorderRef |-> recorderRef, transcriptionQueueRef |-> transcriptionQueueRef,
     continuousCycleTimerRef |-> continuousCycleTimerRef, timerRef |-> timerRef,
     summaryTimerRef |-> summaryTimerRef, chunksRef |-> chunksRef, recState |-> recState,
     recStream |-> recStream, stopEventPending |-> stopEventPending,
     streamState |-> streamState, gumPending |-> gumPending, cycleTimers |-> cycleTimers,
     intervalTimers |-> intervalTimers, summaryTimers |-> summaryTimers,
     requests |-> requests, summary |-> summary, dropped |-> dropped,
     lastOutcome |-> lastOutcome, stopJustReturned |-> stopJustReturned,
     stoppedSinceStart |-> stoppedSinceStart]

\* The Transcription Protocol (transcribeAudioFile of app/src/main/transcription.ts):
\* one call, from its arguments to what it returns or throws.
VARIABLES
    binaryExists,            \* existsSync(resolveSpeechBinary())
    audioPath,               \* the argument audioPath
    locale,                  \* the argument locale (Undefined when it is left out)
    callPc,                  \* "idle" | "running" (awaiting runProcess) | "done"
    spawnCount,              \* history: calls of spawn made by the call
    childArgs,               \* the argument list the worker was spawned with
    processOutcome,          \* what runProcess resolved with, once the child has closed
    callResult               \* what the call returned or threw

protocolVars == <<binaryExists, audioPath, locale, callPc, spawnCount, childArgs,
                  processOutcome, callResult>>

\* locale?: string left out
Undefined == "undefined"

\* No ProcessOutcome yet (the promise of runProcess is pending).
NoOutcome == [closed |-> FALSE, exitCode |-> 0, stdout |-> <<>>, stderr |-> <<>>,
              signal |-> FALSE]

\* The call has not returned.
NoResult == [category |-> "pending", value |-> <<>>, message |-> <<>>]

\* No call of transcribeAudioFile is modelled (the state of these variables in the
\* specifications of the scheduler).
ProtocolUnused ==
    /\ binaryExists = TRUE
    /\ audioPath = ""
    /\ locale = Undefined
    /\ callPc = "idle"
    /\ spawnCount = 0
    /\ childArgs = <<>>
    /\ processOutcome = NoOutcome
    /\ callResult = NoResult

\* The seam:transcribe-buffer handler of the main process (app/src/main.ts), one
\* record for each of its invocations, and the files it works with.
VARIABLES
    invocations,             \* each invocation: where it stands, and how it ended
    tempFiles,               \* the invocations whose seam-audio-<uuid> file exists
    debugCopy                \* debug-audio-latest.<ext> exists in userData

handlerVars == <<invocations, tempFiles, debugCopy>>

\* Bound: invocations of the handler.
MaxInvocations == 2

Invocations == 1..MaxInvocations

\* An invocation that has not been made.
NotInvoked == [pc |-> "none", created |-> FALSE, result |-> "pending"]

\* No invocation of the handler is modelled.
HandlerUnused ==
    /\ invocations = [h \in Invocations |-> NotInvoked]
    /\ tempFiles = {}
    /\ debugCopy = FALSE

\* The speech worker (native/speech/Sources/speech/main.swift), one execution: the
\* main thread, the thread of waitQueue, and the recognizer that calls back.
VARIABLES
    arguments,               \* CommandLine.arguments without the program name
    config,                  \* the AppConfig parseArguments returned, or NoConfig
    authorizationRequested,  \* history: SFSpeechRecognizer.requestAuthorization was called
    authorizationStatus,     \* var status of ensureAuthorization
    recognizer,              \* SFSpeechRecognizer(locale:): "none" (not called) | "nil" |
                             \*   "unavailable" | "available"
    mainPc,                  \* main thread: "start" | "run" | "authorizing" | "recognizer" |
                             \*   "beforeLoop" | "runLoop" | "afterLoop" | "cancelled" |
                             \*   "exited"
    waiterPc,                \* waitQueue.async block: "idle" | "waiting" | "woke" | "done"
    waitResult,              \* what semaphore.wait returned: "none" | "success" | "timedOut"
    semaphore,               \* the value of the DispatchSemaphore
    deadlinePassed,          \* history: semaphore.wait ran into its deadline
    timedOut,                \* ManagedAtomic timedOut
    runLoopStopped,          \* CFRunLoopStop(CFRunLoopGetMain()) has been called
    hasReceivedAnyResult,    \* var hasReceivedAnyResult
    finalResult,             \* var finalResult: the result last delivered, or NoRecognition
    finalError,              \* var finalError is not nil
    task,                    \* the recognition task: "none" | "running" | "finished" | "cancelled"
    taskStarted,             \* history: recognizer.recognitionTask(with:) was called
    delivered,               \* history: callbacks delivered so far
    beforeDeadline,          \* history: what the callbacks delivered before the deadline carried
    workerExit               \* how the process ended: exit code, stdout, stderr

workerVars == <<arguments, config, authorizationRequested, authorizationStatus,
                recognizer,
                mainPc, waiterPc, waitResult, semaphore, deadlinePassed, timedOut,
                runLoopStopped, hasReceivedAnyResult, finalResult, finalError, task,
                taskStarted, delivered, beforeDeadline, workerExit>>

\* var finalResult: SFSpeechRecognitionResult? = nil
NoRecognition == [id |-> 0, isFinal |-> FALSE]

\* The process is running.
NotExited ==
    [exited |-> FALSE, code |-> 0, payload |-> NoRecognition, usage |-> FALSE,
     error |-> "none", ran |-> FALSE]

\* let config = try parseArguments() has not returned.
NoConfig == [localeIdentifier |-> "none", timeout |-> 0]

\* The command line the Protocol builds: the audio path, --locale=, --json and
\* --timeout=60.
ProtocolArguments ==
    [help |-> FALSE, path |-> "audio.m4a", locale |-> "ja-JP", timeout |-> "60",
     other |-> FALSE, json |-> TRUE]

\* The process before parseArguments, whatever its command line.
WorkerStart ==
    /\ config = NoConfig
    /\ authorizationRequested = FALSE
    /\ authorizationStatus = "notDetermined"
    /\ recognizer = "none"
    /\ mainPc = "start"
    /\ waiterPc = "idle"
    /\ waitResult = "none"
    /\ semaphore = 0
    /\ deadlinePassed = FALSE
    /\ timedOut = FALSE
    /\ runLoopStopped = FALSE
    /\ hasReceivedAnyResult = FALSE
    /\ finalResult = NoRecognition
    /\ finalError = FALSE
    /\ task = "none"
    /\ taskStarted = FALSE
    /\ delivered = 0
    /\ beforeDeadline = {}
    /\ workerExit = NotExited

\* The worker before parseArguments.
WorkerInit ==
    /\ arguments = ProtocolArguments
    /\ WorkerStart

\* Three functions, each applied once to an input of any kind: the payload the
\* worker builds from a result (main.swift), and resolveSpeechBinary with the check
\* that follows it and extensionFromMime (main/transcription.ts).
VARIABLES
    transcription,           \* result.bestTranscription.segments
    recognitionPayload,      \* the RecognitionPayload built from it, or NoPayload
    environment,             \* SEAM_SPEECH_BIN, app.isPackaged and the files that exist
    binaryPath,              \* const binaryPath = resolveSpeechBinary(), or Unresolved
    resolution,              \* "none" | "binaryNotFound" | "spawn"
    mimeType,                \* the argument of extensionFromMime
    extension                \* what it returned, or NoExtension

\* The API key of the AI provider: validateAPIKey (shared/ai-provider) and
\* getAIProviderConfig (main.ts).
VARIABLES
    settings,                \* the rows of the settings table getAIProviderConfig reads
    session,                 \* its sessionId argument and the session's ai_provider
    keyCheck,                \* one call of validateAPIKey: arguments and outcome
    aiProviderConfig         \* what getAIProviderConfig returned or threw, or NoConfiguration

keyVars == <<settings, session, keyCheck, aiProviderConfig>>

functionVars == <<transcription, recognitionPayload, environment, binaryPath, resolution,
                  mimeType, extension, settings, session, keyCheck, aiProviderConfig>>

\* No RecognitionPayload has been built.
NoPayload == [confidence |-> [num |-> 0, den |-> 1], segments |-> <<>>, built |-> FALSE]

\* resolveSpeechBinary has not been called.
Unresolved == "unresolved"

\* extensionFromMime has not been called.
NoExtension == "none"

\* JavaScript values: undefined, null and strings.
JsUndefined == [kind |-> "undefined", text |-> ""]
JsNull == [kind |-> "null", text |-> ""]
Str(text) == [kind |-> "string", text |-> text]

\* getAIProviderConfig has not been called.
NoConfiguration == [returned |-> FALSE, thrown |-> FALSE, provider |-> JsUndefined,
                    apiKey |-> JsUndefined, message |-> <<>>]

\* Neither validateAPIKey nor getAIProviderConfig is modelled.
KeyUnused ==
    /\ settings = [ai_provider |-> JsNull, gemini_api_key |-> JsNull,
                   claude_api_key |-> JsNull, chatgpt_api_key |-> JsNull]
    /\ session = [sessionId |-> JsUndefined, ai_provider |-> JsNull]
    /\ keyCheck = [apiKey |-> JsUndefined, provider |-> "gemini", outcome |-> <<"unused">>]
    /\ aiProviderConfig = NoConfiguration

\* None of the functions is modelled.
FunctionsUnused ==
    /\ transcription = <<>>
    /\ recognitionPayload = NoPayload
    /\ environment = [SEAM_SPEECH_BIN |-> "undefined", isPackaged |-> FALSE, files |-> {}]
    /\ binaryPath = Unresolved
    /\ resolution = "none"
    /\ mimeType = <<>>
    /\ extension = NoExtension
    /\ KeyUnused

\* What an action of one component leaves alone.
outsideProtocol == <<vars, handlerVars, workerVars, functionVars>>
outsideHandler == <<vars, protocolVars, workerVars, functionVars>>
outsideWorker == <<vars, protocolVars, handlerVars, functionVars>>
outsideFunctions == <<vars, protocolVars, handlerVars, workerVars>>

\* The next state is the record st.
Install(st) ==
    /\ status' = st.status
    /\ continuousModeRef' = st.continuousModeRef
    /\ streamRef' = st.streamRef
    /\ recorderRef' = st.recorderRef
    /\ transcriptionQueueRef' = st.transcriptionQueueRef
    /\ continuousCycleTimerRef' = st.continuousCycleTimerRef
    /\ timerRef' = st.timerRef
    /\ summaryTimerRef' = st.summaryTimerRef
    /\ chunksRef' = st.chunksRef
    /\ recState' = st.recState
    /\ recStream' = st.recStream
    /\ stopEventPending' = st.stopEventPending
    /\ streamState' = st.streamState
    /\ gumPending' = st.gumPending
    /\ cycleTimers' = st.cycleTimers
    /\ intervalTimers' = st.intervalTimers
    /\ summaryTimers' = st.summaryTimers
    /\ requests' = st.requests
    /\ summary' = st.summary
    /\ dropped' = st.dropped
    /\ lastOutcome' = st.lastOutcome
    /\ stopJustReturned' = st.stopJustReturned
    /\ stoppedSinceStart' = st.stoppedSinceStart
    /\ UNCHANGED protocolVars
    /\ UNCHANGED handlerVars
    /\ UNCHANGED workerVars
    /\ UNCHANGED functionVars

\* The state after the component is mounted (all refs at their useRef value).
SchedulerInit ==
    /\ status = "idle"
    /\ continuousModeRef = FALSE
    /\ streamRef = Null
    /\ recorderRef = Null
    /\ transcriptionQueueRef = FALSE
    /\ continuousCycleTimerRef = NoTimer
    /\ timerRef = Null
    /\ summaryTimerRef = Null
    /\ chunksRef = 0
    /\ recState = [r \in Recorders |-> "unused"]
    /\ recStream = [r \in Recorders |-> Null]
    /\ stopEventPending = {}
    /\ streamState = [s \in Streams |-> "unused"]
    /\ gumPending = 0
    /\ cycleTimers = {}
    /\ intervalTimers = {}
    /\ summaryTimers = {}
    /\ requests = {}
    /\ summary = [isSummaryGenerating |-> FALSE,
                  calls |-> [captured \in BOOLEAN |-> 0],
                  timers |-> [s \in Streams |-> FALSE],
                  generating |-> 0,
                  reloading |-> 0]
    /\ dropped = {}
    /\ lastOutcome = "none"
    /\ stopJustReturned = FALSE
    /\ stoppedSinceStart = FALSE

\* The scheduler after the component is mounted.
Init ==
    /\ SchedulerInit
    /\ ProtocolUnused
    /\ HandlerUnused
    /\ WorkerInit
    /\ FunctionsUnused

----------------------------------------------------------------------------
(* The browser: MediaRecorder and MediaStream *)

\* new MediaRecorder(...): the next recorder not created yet.
NextRecorder(st) ==
    CHOOSE r \in Recorders :
        /\ st.recState[r] = "unused"
        /\ \A q \in Recorders : q < r => st.recState[q] # "unused"

HasFreeRecorder(st) == \E r \in Recorders : st.recState[r] = "unused"

\* getUserMedia resolving: the next stream not handed out yet.
NextStream(st) ==
    CHOOSE s \in Streams :
        /\ st.streamState[s] = "unused"
        /\ \A q \in Streams : q < s => st.streamState[q] # "unused"

UsedStreams(st) == {s \in Streams : st.streamState[s] # "unused"}

\* recorder.stop(): the state becomes inactive at once; one task that fires
\* dataavailable and then stop is queued.
recorderStop(st, r) ==
    [st EXCEPT !.recState[r] = "inactive", !.stopEventPending = @ \cup {r}]

\* track.stop() on every track of stream s: the stream ends, and a recorder still
\* recording it is stopped by the browser (all its tracks have ended).
tracksStop(st, s) ==
    LET recording == {r \in Recorders : st.recState[r] = "recording" /\ st.recStream[r] = s}
    IN  [st EXCEPT !.streamState[s] = "ended",
                   !.recState = [r \in Recorders |->
                                    IF r \in recording THEN "inactive" ELSE st.recState[r]],
                   !.stopEventPending = @ \cup recording]

----------------------------------------------------------------------------
(* MicrophonePanel *)

\* cleanup(): keepStream is never passed, so the stream is always released.
cleanup(st) ==
    LET s1 == IF st.timerRef # Null
              THEN [st EXCEPT !.intervalTimers = @ \ {st.timerRef}, !.timerRef = Null]
              ELSE st
        s2 == IF s1.continuousCycleTimerRef # NoTimer
              THEN [s1 EXCEPT !.cycleTimers = @ \ {s1.continuousCycleTimerRef},
                              !.continuousCycleTimerRef = NoTimer]
              ELSE s1
        s3 == IF s2.summaryTimerRef # Null
              THEN [s2 EXCEPT !.summaryTimers = @ \ {s2.summaryTimerRef},
                              !.summaryTimerRef = Null]
              ELSE s2
        s4 == IF s3.recorderRef # Null
              THEN [(IF s3.recState[s3.recorderRef] # "inactive"
                     THEN recorderStop(s3, s3.recorderRef)
                     ELSE s3) EXCEPT !.recorderRef = Null]
              ELSE s3
        s5 == IF s4.streamRef # Null
              THEN [tracksStop(s4, s4.streamRef) EXCEPT !.streamRef = Null]
              ELSE s4
    IN  [s5 EXCEPT !.chunksRef = 0]

\* transcribeChunk without its gate: every accepted segment is dispatched.
transcribeChunkNoGate(st, seg, size) ==
    [st EXCEPT !.transcriptionQueueRef = TRUE,
               !.requests = @ \cup {[seg |-> seg, size |-> size, pc |-> "ipc"]}]

\* transcribeChunk that keeps a segment arriving at a held gate and sends it.
transcribeChunkQueued(st, seg, size) ==
    [st EXCEPT !.transcriptionQueueRef = TRUE,
               !.dropped = IF st.transcriptionQueueRef THEN @ \cup {seg} ELSE @,
               !.requests = @ \cup {[seg |-> seg, size |-> size, pc |-> "ipc"]}]

\* transcribeChunk(blob) up to its first await: the gate, then the dispatch.
transcribeChunk(st, seg, size) ==
    IF st.transcriptionQueueRef
    THEN [st EXCEPT !.dropped = @ \cup {seg}]
    ELSE [st EXCEPT !.transcriptionQueueRef = TRUE,
                    !.requests = @ \cup {[seg |-> seg, size |-> size, pc |-> "ipc"]}]

\* startContinuousRecordingCycle(): a new recorder on the current stream, started,
\* and the 10 s timer that stops it.
startContinuousRecordingCycle(st) ==
    IF st.streamRef = Null
    THEN st
    ELSE LET r == NextRecorder(st)
         IN  [st EXCEPT !.recState[r] = "recording",
                        !.recStream[r] = st.streamRef,
                        !.recorderRef = r,
                        !.chunksRef = 0,
                        !.cycleTimers = @ \cup {<<"stop", r>>},
                        !.continuousCycleTimerRef = <<"stop", r>>]

\* handleData(event) of a cycle.
handleData(st, size) ==
    IF size > 0 THEN [st EXCEPT !.chunksRef = @ + size] ELSE st

\* handleStop that waits for the gate before it schedules the next cycle.
handleStopGated(st, r) ==
    LET size == st.chunksRef
        s1 == IF size >= MinChunkBytes THEN transcribeChunk(st, r, size) ELSE st
    IN  IF s1.continuousModeRef /\ s1.streamRef # Null /\ ~st.transcriptionQueueRef
        THEN [s1 EXCEPT !.cycleTimers = @ \cup {<<"next", r>>},
                        !.continuousCycleTimerRef = <<"next", r>>]
        ELSE s1

\* handleStop that discards the segment of a run that has been stopped.
handleStopDiscardingAfterStop(st, r) ==
    LET size == st.chunksRef
        s1 == IF size >= MinChunkBytes /\ st.continuousModeRef
              THEN transcribeChunk(st, r, size)
              ELSE st
    IN  IF s1.continuousModeRef /\ s1.streamRef # Null
        THEN [s1 EXCEPT !.cycleTimers = @ \cup {<<"next", r>>},
                        !.continuousCycleTimerRef = <<"next", r>>]
        ELSE s1

\* handleStop() of the cycle of recorder r.
handleStop(st, r) ==
    LET size == st.chunksRef
        s1 == IF size >= MinChunkBytes
              THEN transcribeChunk(st, r, size)
              ELSE st
    IN  IF s1.continuousModeRef /\ s1.streamRef # Null
        THEN [s1 EXCEPT !.cycleTimers = @ \cup {<<"next", r>>},
                        !.continuousCycleTimerRef = <<"next", r>>]
        ELSE s1

\* The callback of the 10 s timer.
stopTimerCallback(st) ==
    IF st.recorderRef # Null /\ st.recState[st.recorderRef] = "recording"
    THEN recorderStop(st, st.recorderRef)
    ELSE st

\* generateAndUpdateSummary() up to `await window.seam.generateSummary`, called
\* through a closure in which isSummaryGenerating had the value `captured`:
\* a callback created by useCallback reads the state of the render that created
\* it. sessionId is always set (App.tsx:202).
generateAndUpdateSummary(st, captured) ==
    IF captured
    THEN st
    ELSE [st EXCEPT !.summary.isSummaryGenerating = TRUE,
                    !.summary.generating = @ + 1]

\* generateSummary settled: getSummaries is awaited next, or the catch and the
\* finally block run.
generateSummarySettled(st, resolved) ==
    IF resolved
    THEN [st EXCEPT !.summary.generating = @ - 1, !.summary.reloading = @ + 1]
    ELSE [st EXCEPT !.summary.generating = @ - 1,
                    !.summary.isSummaryGenerating = FALSE]

\* getSummaries settled: setSummaries or the catch, and the finally block.
getSummariesSettled(st) ==
    [st EXCEPT !.summary.reloading = @ - 1, !.summary.isSummaryGenerating = FALSE]

\* startRecording(true) up to `await getUserMedia`. The call runs the
\* startRecording of the latest render, whose generateAndUpdateSummary read
\* isSummaryGenerating in that render.
startRecording(st) ==
    IF st.status \in {"recording", "initializing"}
    THEN st
    ELSE [st EXCEPT !.status = "initializing", !.gumPending = @ + 1,
                    !.summary.calls[st.summary.isSummaryGenerating] = @ + 1]

\* startRecording(true) after getUserMedia resolved.
startRecordingResolved(st, captured) ==
    LET s == NextStream(st)
        s1 == [st EXCEPT !.gumPending = @ - 1,
                         !.summary.calls[captured] = @ - 1,
                         !.summary.timers[s] = captured,
                         !.streamState[s] = "live",
                         !.streamRef = s,
                         !.continuousModeRef = TRUE,
                         !.status = "recording",
                         !.timerRef = s,
                         !.intervalTimers = @ \cup {s},
                         !.summaryTimerRef = s,
                         !.summaryTimers = @ \cup {s}]
    IN  startContinuousRecordingCycle(generateAndUpdateSummary(s1, captured))

\* startRecording(true) after getUserMedia rejected: the catch block.
startRecordingRejected(st, denied, captured) ==
    [cleanup([st EXCEPT !.gumPending = @ - 1, !.summary.calls[captured] = @ - 1])
        EXCEPT !.status = IF denied THEN "denied" ELSE "error"]

\* stopRecording().
stopRecording(st) ==
    IF st.status \notin {"recording", "initializing"}
    THEN st
    ELSE LET s1 == [st EXCEPT !.continuousModeRef = FALSE]
         IN  IF s1.recorderRef # Null /\ s1.recState[s1.recorderRef] # "inactive"
             THEN recorderStop(s1, s1.recorderRef)
             ELSE [cleanup(s1) EXCEPT !.status = "idle"]

----------------------------------------------------------------------------
(* The main process *)

\* The seam:transcribe-buffer handler up to its call of transcribeAudioFile: the
\* checks of the buffer. "" when the buffer passes them.
transcribeBufferChecks(size) ==
    IF size = 0 THEN "bufferRequired"
    ELSE IF size < MinBufferBytes THEN "bufferTooSmall"
    ELSE ""

\* The handler receives the request: it throws, or writes the temp file and calls
\* transcribeAudioFile (req.pc = "worker": the request has reached the Protocol).
transcribeBufferHandler(st, req) ==
    [st EXCEPT !.requests = (@ \ {req}) \cup
        {[req EXCEPT !.pc = IF transcribeBufferChecks(req.size) = ""
                            THEN "worker" ELSE "rejected"]}]

----------------------------------------------------------------------------
(* MicrophonePanel: the continuations of a dispatched request *)

\* transcribeChunk without its finally block.
transcribeChunkNoFinally(st, req) ==
    [st EXCEPT !.requests = @ \ {req}]

\* transcribeChunk's finally, after transcribeBlob returned. saveTranscription is
\* awaited inside a try/catch of its own: whether it resolved or rejected,
\* transcribeBlob returns and the finally block runs.
transcribeChunkFinally(st, req) ==
    [st EXCEPT !.requests = @ \ {req}, !.transcriptionQueueRef = FALSE]

\* transcribeBlob whose catch treats a chunk's error as the one-shot branch does and
\* ends the run.
transcribeBlobSettledAborting(st, req, outcome) ==
    IF outcome \in FailureOutcomes
    THEN [st EXCEPT !.lastOutcome = "failed",
                    !.status = "error",
                    !.continuousModeRef = FALSE,
                    !.requests = @ \ {req},
                    !.transcriptionQueueRef = FALSE]
    ELSE IF outcome = "ok"
    THEN [st EXCEPT !.lastOutcome = "ok",
                    !.requests = (@ \ {req}) \cup {[req EXCEPT !.pc = "save"]}]
    ELSE [st EXCEPT !.lastOutcome = "ok",
                    !.requests = @ \ {req},
                    !.transcriptionQueueRef = FALSE]

\* transcribeBlob that saves every result, with or without text.
transcribeBlobSettledSavingAll(st, req, outcome) ==
    LET s1 == [st EXCEPT !.lastOutcome = IF outcome = "binaryMissing" THEN "binaryMissing"
                                         ELSE IF outcome \in FailureOutcomes
                                         THEN "failed" ELSE outcome]
    IN  IF outcome \notin FailureOutcomes
        THEN [s1 EXCEPT !.requests = (@ \ {req}) \cup {[req EXCEPT !.pc = "save"]}]
        ELSE transcribeChunkFinally(s1, req)

\* transcribeBlob(blob, {isChunk: true}) after window.seam.transcribeAudio settled
\* with `outcome`: a result with text is saved first, anything else (a result
\* without text, or an error, which the catch logs) ends transcribeBlob.
\* sessionId is always set (App.tsx:202).
transcribeBlobSettled(st, req, outcome) ==
    LET s1 == [st EXCEPT !.lastOutcome = IF outcome = "binaryMissing" THEN "binaryMissing"
                                         ELSE IF outcome \in FailureOutcomes
                                         THEN "failed" ELSE outcome]
    IN  IF outcome = "ok"
        THEN [s1 EXCEPT !.requests = (@ \ {req}) \cup {[req EXCEPT !.pc = "save"]}]
        ELSE transcribeChunkFinally(s1, req)

----------------------------------------------------------------------------
(* Actions: one per task of the event loop *)

Touch(st, stopCall, startCall) ==
    [st EXCEPT !.stopJustReturned = stopCall,
               !.stoppedSinceStart = IF startCall THEN FALSE
                                     ELSE IF stopCall THEN TRUE ELSE @]

\* Every pending getUserMedia can be given a stream.
CanStart(st) ==
    st.status \in {"recording", "initializing"}
        \/ st.gumPending + Cardinality(UsedStreams(st)) < MaxStreams

StartRecordingCall ==
    /\ CanStart(State)
    /\ Install(Touch(startRecording(State), FALSE, TRUE))

\* The panel offers no recording at all when MediaRecorder is missing
\* (status 'unsupported', which is never left).
StopRecordingCall ==
    /\ status # "unsupported"
    /\ Install(Touch(stopRecording(State), TRUE, FALSE))

\* The record button: enabled unless recording or initializing.
StartClick ==
    /\ status \notin {"recording", "initializing"}
    /\ CanStart(State)
    /\ Install(Touch(startRecording(State), FALSE, TRUE))

\* The stop button: rendered while status === 'recording' && continuousMode.
StopClick ==
    /\ status = "recording"
    /\ continuousModeRef
    /\ Install(Touch(stopRecording(State), TRUE, FALSE))

\* A pending getUserMedia resolves, and the call of startRecording that awaited
\* it goes on (`captured`: what its closure holds).
GetUserMediaResolved ==
    /\ gumPending > 0
    /\ HasFreeRecorder(State)
    /\ \E captured \in BOOLEAN :
          /\ summary.calls[captured] > 0
          /\ ~captured => summary.generating + summary.reloading < MaxSummaries
          /\ Install(Touch(startRecordingResolved(State, captured), FALSE, FALSE))

GetUserMediaRejected ==
    /\ gumPending > 0
    /\ \E denied \in BOOLEAN, captured \in BOOLEAN :
          /\ summary.calls[captured] > 0
          /\ Install(Touch(startRecordingRejected(State, denied, captured),
                           FALSE, FALSE))

StopTimerFires ==
    \E t \in cycleTimers :
        /\ t[1] = "stop"
        /\ Install(Touch(stopTimerCallback([State EXCEPT !.cycleTimers = @ \ {t}]),
                         FALSE, FALSE))

NextCycleTimerFires ==
    \E t \in cycleTimers :
        /\ t[1] = "next"
        /\ streamRef # Null => HasFreeRecorder(State)
        /\ Install(Touch(startContinuousRecordingCycle(
                             [State EXCEPT !.cycleTimers = @ \ {t}]), FALSE, FALSE))

RecorderStopEvent ==
    \E r \in stopEventPending, size \in SegmentSizes :
        Install(Touch(handleStop(handleData(
                          [State EXCEPT !.stopEventPending = @ \ {r}], size), r),
                      FALSE, FALSE))

MainHandlesBuffer ==
    \E req \in requests :
        /\ req.pc = "ipc"
        /\ Install(Touch(transcribeBufferHandler(State, req), FALSE, FALSE))

\* The worker has exited and transcribeAudioFile returned or threw.
TranscribeSettles ==
    \E req \in requests, outcome \in WorkerOutcomes :
        /\ req.pc = "worker"
        /\ Install(Touch(transcribeBlobSettled(State, req, outcome), FALSE, FALSE))

\* The handler's error arrives in the renderer.
TranscribeRejected ==
    \E req \in requests :
        /\ req.pc = "rejected"
        /\ Install(Touch(transcribeBlobSettled(State, req,
                             transcribeBufferChecks(req.size)), FALSE, FALSE))

SaveSettles ==
    \E req \in requests :
        /\ req.pc = "save"
        /\ Install(Touch(transcribeChunkFinally(State, req), FALSE, FALSE))

Events ==
    \/ GetUserMediaResolved
    \/ GetUserMediaRejected
    \/ StopTimerFires
    \/ NextCycleTimerFires
    \/ RecorderStopEvent
    \/ MainHandlesBuffer
    \/ TranscribeSettles
    \/ TranscribeRejected
    \/ SaveSettles

\* The program as shipped: startRecording and stopRecording are called by the two
\* buttons of the panel and by nothing else.
Next ==
    \/ StartClick
    \/ StopClick
    \/ Events

Spec == Init /\ [][Next]_vars

\* startRecording and stopRecording called directly, in any order and at any time
\* (the operations startContinuous/stopContinuous of the specification).
NextApi ==
    \/ StartRecordingCall
    \/ StopRecordingCall
    \/ Events

SpecApi == Init /\ [][NextApi]_vars

\* The 30 s interval fires: generateAndUpdateSummary is called through the closure
\* the interval was created with.
SummaryTimerFires ==
    \E s \in summaryTimers :
        /\ ~summary.timers[s] => summary.generating + summary.reloading < MaxSummaries
        /\ Install(Touch(generateAndUpdateSummary(State, summary.timers[s]),
                         FALSE, FALSE))

GenerateSummarySettles ==
    /\ summary.generating > 0
    /\ \E resolved \in BOOLEAN :
          Install(Touch(generateSummarySettled(State, resolved), FALSE, FALSE))

GetSummariesSettles ==
    /\ summary.reloading > 0
    /\ Install(Touch(getSummariesSettled(State), FALSE, FALSE))

\* The panel as shipped together with the events of summary generation, which
\* reads and writes nothing the recording scheduler reads.
NextSummary ==
    \/ StartClick
    \/ StopClick
    \/ Events
    \/ SummaryTimerFires
    \/ GenerateSummarySettles
    \/ GetSummariesSettles

SpecSummary == Init /\ [][NextSummary]_vars

\* The panel as shipped, where every call the renderer awaits settles: the main
\* process handles a request it was sent, transcribeAudioFile settles (the
\* premise of the gate's release), and so does saveTranscription. Each is the
\* continuation of a promise, which the event loop runs once it is ready.
SpecSettling ==
    /\ Spec
    /\ WF_vars(MainHandlesBuffer)
    /\ WF_vars(TranscribeSettles)
    /\ WF_vars(TranscribeRejected)
    /\ WF_vars(SaveSettles)

----------------------------------------------------------------------------
(* Capture errors: the recorder cannot be created or started, or fails *)

\* startContinuousRecordingCycle() when `new MediaRecorder` (atStart FALSE) or
\* `recorder.start()` (atStart TRUE) throws. The function is async and is called
\* as `void startContinuousRecordingCycle()`: the exception rejects a promise
\* nobody holds. It contains no try/catch, so the statements after the throwing
\* one are not executed: no 10 s timer, and no stop event that would arm the
\* next cycle.
startContinuousRecordingCycleThrows(st, atStart) ==
    IF st.streamRef = Null
    THEN st
    ELSE IF ~atStart
         THEN st
         ELSE LET r == NextRecorder(st)
              IN  [st EXCEPT !.recState[r] = "inactive",
                             !.recStream[r] = st.streamRef,
                             !.recorderRef = r,
                             !.chunksRef = 0]

\* The 500 ms timer fires and the cycle it starts throws.
CycleStartThrows ==
    \E t \in cycleTimers, atStart \in BOOLEAN :
        /\ t[1] = "next"
        /\ streamRef # Null
        /\ HasFreeRecorder(State)
        /\ Install(Touch(startContinuousRecordingCycleThrows(
                             [State EXCEPT !.cycleTimers = @ \ {t}], atStart),
                         FALSE, FALSE))

\* A recorder fails while recording. No 'error' listener is registered; the
\* browser makes the recorder inactive and queues dataavailable and stop, as
\* for recorder.stop().
RecorderErrors ==
    \E r \in Recorders :
        /\ recState[r] = "recording"
        /\ Install(Touch(recorderStop(State, r), FALSE, FALSE))

NextCapture ==
    \/ StartClick
    \/ StopClick
    \/ Events
    \/ CycleStartThrows
    \/ RecorderErrors

\* The panel as shipped, with a capture device that can fail.
SpecCapture == Init /\ [][NextCapture]_vars

----------------------------------------------------------------------------
(* The Transcription Protocol: transcribeAudioFile                          *)

\* Bounds: the runs of a stdout text and of a stderr text.
MaxRuns == 3
MaxStderrRuns == 2

\* output.substring(0, 200)
ExcerptLimit == 200

\* The text a stream of the worker carried is a sequence of runs of characters: a
\* run of white space ("ws"), a run that is the text of one complete JSON value
\* ("json"), or a run of characters that are neither ("junk").  A run has a length
\* in characters; the lengths are those on both sides of the excerpt limit.
RunKinds == {"ws", "json", "junk"}
RunLengths == {1, ExcerptLimit}
Runs == [kind : RunKinds, len : RunLengths]
StdoutTexts == UNION {[1..k -> Runs] : k \in 0..MaxRuns}
StderrTexts == UNION {[1..k -> [kind : {"ws", "junk"}, len : {1}]] : k \in 0..MaxStderrRuns}

\* String.prototype.length
RECURSIVE length(_)
length(t) == IF t = <<>> THEN 0 ELSE Head(t).len + length(Tail(t))

\* String.prototype.trimStart
RECURSIVE trimStart(_)
trimStart(t) == IF t # <<>> /\ Head(t).kind = "ws" THEN trimStart(Tail(t)) ELSE t

\* String.prototype.trimEnd
RECURSIVE trimEnd(_)
trimEnd(t) ==
    IF t # <<>> /\ t[Len(t)].kind = "ws" THEN trimEnd(SubSeq(t, 1, Len(t) - 1)) ELSE t

\* String.prototype.trim
trim(t) == trimEnd(trimStart(t))

\* String.prototype.substring(0, n): the first n characters (the whole text when
\* it is shorter).  The run the cut falls in keeps its kind and loses its tail.
RECURSIVE substring(_, _)
substring(t, n) ==
    IF t = <<>> \/ n = 0 THEN <<>>
    ELSE IF Head(t).len <= n THEN <<Head(t)>> \o substring(Tail(t), n - Head(t).len)
    ELSE <<[Head(t) EXCEPT !.len = n]>>

\* JSON.parse: white space around the value is skipped; the text parses when what
\* is left is exactly one JSON value, which is then returned as it was written.
JSONParse(t) ==
    LET body == trim(t)
    IN  IF Len(body) = 1 /\ body[1].kind = "json"
        THEN [ok |-> TRUE, value |-> body]
        ELSE [ok |-> FALSE, value |-> <<>>]

\* A message is a template literal: a sequence of literal parts, numbers and
\* interpolated texts.
Lit(s) == [part |-> "lit", s |-> s, n |-> 0, t |-> <<>>]
Num(n) == [part |-> "num", s |-> "", n |-> n, t |-> <<>>]
Txt(t) == [part |-> "txt", s |-> "", n |-> 0, t |-> t]

BinaryNotFoundText == "Speech binary not found at "
ExitedWithCodeText == "Speech process exited with code "
NoOutputText == "Speech binary produced no output."
BinaryErrorOutputText == "\nBinary error output: "
FormatHintText == "\nThe speech binary produced no output. This may indicate an unsupported audio format (WebM/Ogg are not supported by macOS Speech framework - use M4A/AAC/MP4 instead)."
FailedToParseText == "Failed to parse speech output: "
OutputReceivedText == "\nOutput received: "

\* throw new Error(message)
Failure(category, message) == [category |-> category, value |-> <<>>, message |-> message]

\* One element of the argument list of the worker.
Arg(flag, value) == [flag |-> flag, value |-> value]

\* if (locale): a string is truthy unless it is left out or empty
Truthy(s) == s # Undefined /\ s # ""

\* transcribeAudioFile without `if (!existsSync(binary)) throw`.
transcribeAudioFileSpawnUnchecked(exists, path, loc) ==
    [spawns |-> 1,
     args |-> <<Arg("", path), Arg("--json", ""), Arg("--timeout=", "60")>>
              \o (IF Truthy(loc) THEN <<Arg("--locale=", loc)>> ELSE <<>>),
     thrown |-> FALSE]

\* transcribeAudioFile up to `await runProcess(binary, args)`: the spawns it makes,
\* with which arguments, and whether it threw instead.
transcribeAudioFileSpawn(exists, path, loc) ==
    IF ~exists
    THEN [spawns |-> 0, args |-> <<>>, thrown |-> TRUE]
    ELSE [spawns |-> 1,
          args |-> <<Arg("", path), Arg("--json", ""), Arg("--timeout=", "60")>>
                   \o (IF Truthy(loc) THEN <<Arg("--locale=", loc)>> ELSE <<>>),
          thrown |-> FALSE]

\* child.on('close', code => resolve({ stdout, stderr, exitCode: code ?? 0 })):
\* code is null when a signal ended the child.  (signal is history: the object
\* runProcess resolves with does not say how the child ended.)
runProcessResolve(close, out, err) ==
    [closed |-> TRUE, exitCode |-> IF close.signal THEN 0 ELSE close.code,
     stdout |-> out, stderr |-> err, signal |-> close.signal]

\* transcribeAudioFile that reads stdout before it looks at the exit code.
transcribeAudioFileResultStdoutFirst(result) ==
    LET output == trim(result.stdout)
        parsed == JSONParse(output)
    IN  IF output # <<>> /\ parsed.ok
        THEN [category |-> "success", value |-> parsed.value, message |-> <<>>]
        ELSE IF result.exitCode # 0
        THEN Failure("processFailed",
                     IF trim(result.stderr) # <<>>
                     THEN <<Txt(trim(result.stderr))>>
                     ELSE <<Lit(ExitedWithCodeText), Num(result.exitCode)>>)
        ELSE IF output = <<>>
        THEN Failure("noOutput",
                     <<Lit(NoOutputText)>>
                     \o (IF trim(result.stderr) # <<>>
                         THEN <<Lit(BinaryErrorOutputText), Txt(trim(result.stderr))>>
                         ELSE <<Lit(FormatHintText)>>))
        ELSE Failure("parseFailure",
                     <<Lit(FailedToParseText), Lit("SyntaxError"),
                       Lit(OutputReceivedText), Txt(substring(output, ExcerptLimit))>>)

\* transcribeAudioFile with `result.stderr || ...` in place of `result.stderr.trim() || ...`.
transcribeAudioFileResultUntrimmed(result) ==
    IF result.exitCode # 0
    THEN Failure("processFailed",
                 IF result.stderr # <<>>
                 THEN <<Txt(result.stderr)>>
                 ELSE <<Lit(ExitedWithCodeText), Num(result.exitCode)>>)
    ELSE LET output == trim(result.stdout)
         IN  IF output = <<>>
             THEN Failure("noOutput",
                          <<Lit(NoOutputText)>>
                          \o (IF trim(result.stderr) # <<>>
                              THEN <<Lit(BinaryErrorOutputText), Txt(trim(result.stderr))>>
                              ELSE <<Lit(FormatHintText)>>))
             ELSE LET parsed == JSONParse(output)
                  IN  IF parsed.ok
                      THEN [category |-> "success", value |-> parsed.value,
                            message |-> <<>>]
                      ELSE Failure("parseFailure",
                                   <<Lit(FailedToParseText), Lit("SyntaxError"),
                                     Lit(OutputReceivedText),
                                     Txt(substring(output, ExcerptLimit))>>)

\* transcribeAudioFile with `${output}` in place of `${output.substring(0, 200)}`.
transcribeAudioFileResultWholeOutput(result) ==
    IF result.exitCode # 0
    THEN Failure("processFailed",
                 IF trim(result.stderr) # <<>>
                 THEN <<Txt(trim(result.stderr))>>
                 ELSE <<Lit(ExitedWithCodeText), Num(result.exitCode)>>)
    ELSE LET output == trim(result.stdout)
         IN  IF output = <<>>
             THEN Failure("noOutput",
                          <<Lit(NoOutputText)>>
                          \o (IF trim(result.stderr) # <<>>
                              THEN <<Lit(BinaryErrorOutputText), Txt(trim(result.stderr))>>
                              ELSE <<Lit(FormatHintText)>>))
             ELSE LET parsed == JSONParse(output)
                  IN  IF parsed.ok
                      THEN [category |-> "success", value |-> parsed.value,
                            message |-> <<>>]
                      ELSE Failure("parseFailure",
                                   <<Lit(FailedToParseText), Lit("SyntaxError"),
                                     Lit(OutputReceivedText), Txt(output)>>)

\* transcribeAudioFile from the ProcessOutcome on: what it returns or throws.
transcribeAudioFileResult(result) ==
    IF result.exitCode # 0
    THEN Failure("processFailed",
                 IF trim(result.stderr) # <<>>
                 THEN <<Txt(trim(result.stderr))>>
                 ELSE <<Lit(ExitedWithCodeText), Num(result.exitCode)>>)
    ELSE LET output == trim(result.stdout)
         IN  IF output = <<>>
             THEN Failure("noOutput",
                          <<Lit(NoOutputText)>>
                          \o (IF trim(result.stderr) # <<>>
                              THEN <<Lit(BinaryErrorOutputText), Txt(trim(result.stderr))>>
                              ELSE <<Lit(FormatHintText)>>))
             ELSE LET parsed == JSONParse(output)
                  IN  IF parsed.ok
                      THEN [category |-> "success", value |-> parsed.value,
                            message |-> <<>>]
                      ELSE Failure("parseFailure",
                                   <<Lit(FailedToParseText), Lit("SyntaxError"),
                                     Lit(OutputReceivedText),
                                     Txt(substring(output, ExcerptLimit))>>)

\* How a child process can end: with an exit code, or by a signal (code null).
CloseEvents ==
    {[code |-> c, signal |-> FALSE] : c \in 0..3} \cup {[code |-> 0, signal |-> TRUE]}

\* transcribeAudioFile(audioPath, locale) runs to `await runProcess`, or throws.
TranscribeAudioFileCalled ==
    /\ callPc = "idle"
    /\ LET start == transcribeAudioFileSpawn(binaryExists, audioPath, locale)
       IN  /\ spawnCount' = spawnCount + start.spawns
           /\ childArgs' = start.args
           /\ callPc' = IF start.thrown THEN "done" ELSE "running"
           /\ callResult' = IF start.thrown
                            THEN Failure("binaryNotFound", <<Lit(BinaryNotFoundText)>>)
                            ELSE callResult
    /\ UNCHANGED <<binaryExists, audioPath, locale, processOutcome>>
    /\ UNCHANGED outsideProtocol

\* The child closes: runProcess resolves and transcribeAudioFile runs to its end.
ChildClosed ==
    /\ callPc = "running"
    /\ \E close \in CloseEvents, out \in StdoutTexts, err \in StderrTexts :
           /\ processOutcome' = runProcessResolve(close, out, err)
           /\ callResult' = transcribeAudioFileResult(processOutcome')
    /\ callPc' = "done"
    /\ UNCHANGED <<binaryExists, audioPath, locale, spawnCount, childArgs>>
    /\ UNCHANGED outsideProtocol

\* The child could not be started (child.on('error')): runProcess rejects and the
\* error passes through transcribeAudioFile.
ChildError ==
    /\ callPc = "running"
    /\ callResult' = Failure("spawnError", <<Lit("spawn")>>)
    /\ callPc' = "done"
    /\ UNCHANGED <<binaryExists, audioPath, locale, spawnCount, childArgs, processOutcome>>
    /\ UNCHANGED outsideProtocol

\* One call of transcribeAudioFile with arguments and an environment of any kind.
InitProtocol ==
    /\ SchedulerInit
    /\ HandlerUnused
    /\ WorkerInit
    /\ FunctionsUnused
    /\ binaryExists \in BOOLEAN
    /\ audioPath \in {"/tmp/seam-audio-1.m4a", "/tmp/seam-audio-2.webm"}
    /\ locale \in {Undefined, "", "ja-JP"}
    /\ callPc = "idle"
    /\ spawnCount = 0
    /\ childArgs = <<>>
    /\ processOutcome = NoOutcome
    /\ callResult = NoResult

NextProtocol ==
    \/ TranscribeAudioFileCalled
    \/ ChildClosed
    \/ ChildError

SpecProtocol == InitProtocol /\ [][NextProtocol]_protocolVars

----------------------------------------------------------------------------
(* The seam:transcribe-buffer handler and its temp file                     *)
(* The calls of the file system are taken to do what they are asked to.     *)

\* The handler up to `const tempPath = ...`: it throws on a buffer it rejects.
transcribeBufferInvoke(size) ==
    IF transcribeBufferChecks(size) = ""
    THEN [pc |-> "writeFile", created |-> FALSE, result |-> "pending"]
    ELSE [pc |-> "done", created |-> FALSE, result |-> transcribeBufferChecks(size)]

\* await fsPromises.writeFile(tempPath, buffer)
writeFile(files, h) == files \cup {h}

\* await fsPromises.unlink(tempPath).catch(() => undefined)
unlink(files, h) == files \ {h}

\* try { return await transcribeAudioFile(...) } ...: a rejection goes to the catch
\* block, a result straight to the finally block.
transcribeBufferSettled(inv, outcome) ==
    [inv EXCEPT !.pc = IF outcome \in FailureOutcomes THEN "catch" ELSE "finally",
                !.result = outcome]

\* The catch block that leaves the handler at `throw error`, as it would if the
\* unlink stood after the try statement and not in its finally block.
transcribeBufferCatchLeaves(inv) == [inv EXCEPT !.pc = "done"]

\* catch (error) { console.error(...); throw error } finally { ... }: the throw
\* runs the finally block.
transcribeBufferCatch(inv) == [inv EXCEPT !.pc = "finally"]

\* ipcMain.handle('seam:transcribe-buffer') is invoked with a buffer of some size.
HandlerInvoked ==
    \E h \in Invocations, size \in SegmentSizes :
        /\ invocations[h].pc = "none"
        /\ invocations' = [invocations EXCEPT ![h] = transcribeBufferInvoke(size)]
        /\ UNCHANGED <<tempFiles, debugCopy>>
        /\ UNCHANGED outsideHandler

\* writeFile(tempPath, buffer) has resolved: the temp file exists.
WriteFileResolved ==
    \E h \in Invocations :
        /\ invocations[h].pc = "writeFile"
        /\ tempFiles' = writeFile(tempFiles, h)
        /\ invocations' = [invocations EXCEPT ![h].pc = "stat", ![h].created = TRUE]
        /\ UNCHANGED debugCopy
        /\ UNCHANGED outsideHandler

\* stat(tempPath) has resolved.
StatResolved ==
    \E h \in Invocations :
        /\ invocations[h].pc = "stat"
        /\ h \in tempFiles
        /\ invocations' = [invocations EXCEPT ![h].pc = "wait"]
        /\ UNCHANGED <<tempFiles, debugCopy>>
        /\ UNCHANGED outsideHandler

\* The 100 ms timer has fired.
WaitOver ==
    \E h \in Invocations :
        /\ invocations[h].pc = "wait"
        /\ invocations' = [invocations EXCEPT ![h].pc = "debugCopy"]
        /\ UNCHANGED <<tempFiles, debugCopy>>
        /\ UNCHANGED outsideHandler

\* writeFile(debugPath, buffer).catch(() => undefined) has settled, written or not;
\* the handler calls transcribeAudioFile(tempPath, payload.locale).
DebugCopySettled ==
    \E h \in Invocations, written \in BOOLEAN :
        /\ invocations[h].pc = "debugCopy"
        /\ debugCopy' = (debugCopy \/ written)
        /\ invocations' = [invocations EXCEPT ![h].pc = "transcribe"]
        /\ UNCHANGED tempFiles
        /\ UNCHANGED outsideHandler

\* transcribeAudioFile has returned or thrown.
TranscribeAudioFileSettled ==
    \E h \in Invocations, outcome \in WorkerOutcomes :
        /\ invocations[h].pc = "transcribe"
        /\ invocations' = [invocations EXCEPT
                               ![h] = transcribeBufferSettled(invocations[h], outcome)]
        /\ UNCHANGED <<tempFiles, debugCopy>>
        /\ UNCHANGED outsideHandler

\* The catch block has logged the failure and thrown the error again.
CatchRethrows ==
    \E h \in Invocations :
        /\ invocations[h].pc = "catch"
        /\ invocations' = [invocations EXCEPT ![h] = transcribeBufferCatch(invocations[h])]
        /\ UNCHANGED <<tempFiles, debugCopy>>
        /\ UNCHANGED outsideHandler

\* The finally block: the unlink has settled and the handler returns or throws.
FinallyUnlinks ==
    \E h \in Invocations :
        /\ invocations[h].pc = "finally"
        /\ tempFiles' = unlink(tempFiles, h)
        /\ invocations' = [invocations EXCEPT ![h].pc = "done"]
        /\ UNCHANGED debugCopy
        /\ UNCHANGED outsideHandler

InitHandler ==
    /\ SchedulerInit
    /\ ProtocolUnused
    /\ WorkerInit
    /\ FunctionsUnused
    /\ HandlerUnused

NextHandler ==
    \/ HandlerInvoked
    \/ WriteFileResolved
    \/ StatResolved
    \/ WaitOver
    \/ DebugCopySettled
    \/ TranscribeAudioFileSettled
    \/ CatchRethrows
    \/ FinallyUnlinks

SpecHandler == InitHandler /\ [][NextHandler]_handlerVars

----------------------------------------------------------------------------
(* The speech worker: SpeechCLI.main and run(config:)                       *)
(*                                                                         *)
(* The recognizer calls back on the main queue, which the main thread      *)
(* serves while it is inside CFRunLoopRun.  The block on waitQueue runs    *)
(* on a thread of its own.  The deadline is config.timeout (60 s from the  *)
(* Protocol) after the block starts to wait, so the wait times out only    *)
(* once the main thread is inside CFRunLoopRun.  The output format is      *)
(* --json.                                                                 *)

\* Bound: callbacks the recognizer makes in one execution.
MaxCallbacks == 3

\* The errors thrown before the recognition task exists: by parseArguments
\* (missingAudioPath, fileNotFound, invalidLocale), ensureAuthorization and the
\* guards of run.
StartErrors == {"missingAudioPath", "fileNotFound", "invalidLocale",
                "authorizationDenied", "recognitionUnavailable"}

\* enum AppError
AppErrors == StartErrors \cup {"timeout"}

\* The process ends with exit(code) after what it wrote to stdout and stderr.  ran
\* says that run(config:) was entered and wrote its [speech] lines: it was not when
\* the error is one parseArguments throws (the invalidLocale of run's guard is
\* marked where it is thrown).
Exit(code, payload, usage, error) ==
    [exited |-> TRUE, code |-> code, payload |-> payload, usage |-> usage,
     error |-> error, ran |-> ~usage /\ error \notin {"fileNotFound", "invalidLocale"}]

\* The catch clauses of SpeechCLI.main.
mainCatch(error) ==
    IF error = "missingAudioPath" THEN Exit(1, NoRecognition, TRUE, "none")
    ELSE IF error \in AppErrors THEN Exit(2, NoRecognition, FALSE, error)
    ELSE Exit(3, NoRecognition, FALSE, error)

\* The closure passed to recognizer.recognitionTask(with:), called with
\* (result, error); c holds the variables it captures.
recognitionHandler(c, result, error) ==
    LET c1 == IF result # NoRecognition
              THEN [c EXCEPT !.hasReceivedAnyResult = TRUE,
                             !.finalResult = result,
                             !.semaphore = IF result.isFinal THEN @ + 1 ELSE @]
              ELSE c
    IN  IF error
        THEN [c1 EXCEPT !.finalError = TRUE, !.semaphore = @ + 1]
        ELSE c1

\* task.cancel() left out.
taskCancelSkipped(t) == t

\* task.cancel()
taskCancel(t) == "cancelled"

\* run from `let didTimeOut = timedOut.load(...)` to its end, looking at the result
\* before the error.
runAfterLoopResultFirst(didTimeOut, hasAny, error, result) ==
    IF didTimeOut /\ ~hasAny THEN mainCatch("timeout")
    ELSE IF result # NoRecognition THEN Exit(0, result, FALSE, "none")
    ELSE IF error THEN mainCatch("recognitionError")
    ELSE mainCatch("timeout")

\* run from `let didTimeOut = timedOut.load(...)` to its end without the two throws
\* of AppError.timeout.
runAfterLoopUnchecked(didTimeOut, hasAny, error, result) ==
    IF error THEN mainCatch("recognitionError")
    ELSE Exit(0, result, FALSE, "none")

\* run from `let didTimeOut = timedOut.load(...)` to its end, and the exit main
\* makes of it: the payload on stdout and exit code 0 when run returns.
runAfterLoop(didTimeOut, hasAny, error, result) ==
    IF didTimeOut /\ ~hasAny THEN mainCatch("timeout")
    ELSE IF error THEN mainCatch("recognitionError")
    ELSE IF result = NoRecognition THEN mainCatch("timeout")
    ELSE Exit(0, result, FALSE, "none")

\* The variables the recognition handler captures.
Captured ==
    [hasReceivedAnyResult |-> hasReceivedAnyResult, finalResult |-> finalResult,
     finalError |-> finalError, semaphore |-> semaphore]

\* What a callback carries: a result that is final or not, or none, and an error or
\* none (and not nothing at all).
CallbackKinds ==
    {k \in [result : {"none", "partial", "final"}, error : BOOLEAN] :
        k.result # "none" \/ k.error}

\* The variables of the worker's start-up, which the recognition leaves alone.
startupVars == <<arguments, config, authorizationRequested, authorizationStatus,
                 recognizer>>

\* Locale.availableIdentifiers
availableIdentifiers == {"ja-JP", "en-US"}

\* Locale.current.identifier
LocaleCurrent == "en-US"

\* var timeout: TimeInterval = 30
DefaultTimeout == 30

\* FileManager.default.fileExists(atPath:): one audio file exists.
fileExists(path) == path = "audio.m4a"

\* TimeInterval(value): the number the string spells, or nil.
TimeInterval(value) ==
    CASE value = "60" -> [parsed |-> TRUE, seconds |-> 60]
      [] value = "0" -> [parsed |-> TRUE, seconds |-> 0]
      [] value = "-5" -> [parsed |-> TRUE, seconds |-> 0 - 5]
      [] OTHER -> [parsed |-> FALSE, seconds |-> 0]

\* The command lines: nothing at all, or --json with or without --help, an audio
\* path, --locale=<value>, --timeout=<value> and an argument the worker does not
\* know, in the order the Protocol writes them.
CommandLines ==
    {[help |-> FALSE, path |-> "none", locale |-> "absent", timeout |-> "absent",
      other |-> FALSE, json |-> FALSE]}
    \cup [help : BOOLEAN,
          path : {"none", "missing.m4a", "audio.m4a"},
          locale : {"absent", "ja-JP", "xx-XX"},
          timeout : {"absent", "60", "abc", "0", "-5"},
          other : BOOLEAN,
          json : {TRUE}]

\* arguments.first: the audio path when one was given, and otherwise whatever
\* argument comes first.
first(args) ==
    IF args.path # "none" THEN args.path
    ELSE IF args.locale # "absent" THEN "--locale="
    ELSE IF args.json THEN "--json"
    ELSE "none"

\* parseArguments(): the error it throws, or the AppConfig it returns.
parseArguments(args) ==
    IF args.help THEN [error |-> "missingAudioPath", config |-> NoConfig]
    ELSE IF first(args) = "none" THEN [error |-> "missingAudioPath", config |-> NoConfig]
    ELSE IF ~fileExists(first(args)) THEN [error |-> "fileNotFound", config |-> NoConfig]
    ELSE IF args.locale # "absent" /\ args.locale \notin availableIdentifiers
    THEN [error |-> "invalidLocale", config |-> NoConfig]
    ELSE [error |-> "none",
          config |->
              [localeIdentifier |->
                   IF args.locale # "absent" THEN args.locale ELSE LocaleCurrent,
               timeout |->
                   IF /\ args.timeout # "absent"
                      /\ TimeInterval(args.timeout).parsed
                      /\ TimeInterval(args.timeout).seconds > 0
                   THEN TimeInterval(args.timeout).seconds
                   ELSE DefaultTimeout]]

\* SFSpeechRecognizerAuthorizationStatus, and a status the worker was not built
\* to know.
AuthorizationStatuses == {"authorized", "denied", "restricted", "notDetermined", "unknown"}

\* The switch of ensureAuthorization with .notDetermined returning too.
ensureAuthorizationPrompting(newStatus) ==
    CASE newStatus = "authorized" -> "none"
      [] newStatus \in {"denied", "restricted"} -> "authorizationDenied"
      [] newStatus = "notDetermined" -> "none"
      [] OTHER -> "authorizationDenied"

\* The switch of ensureAuthorization: it returns ("none") or throws.
ensureAuthorization(newStatus) ==
    CASE newStatus = "authorized" -> "none"
      [] newStatus \in {"denied", "restricted"} -> "authorizationDenied"
      [] newStatus = "notDetermined" -> "authorizationDenied"
      [] OTHER -> "authorizationDenied"

\* The guards of run on the recognizer without the one on isAvailable.
recognizerGuardsCreatedOnly(created, isAvailable) ==
    IF ~created THEN "invalidLocale"
    ELSE "none"

\* The guards of run on the recognizer: SFSpeechRecognizer(locale:) gave one or nil,
\* and it is available or not.
recognizerGuards(created, isAvailable) ==
    IF ~created THEN "invalidLocale"
    ELSE IF ~isAvailable THEN "recognitionUnavailable"
    ELSE "none"

\* let config = try parseArguments(), and the catch clauses of main when it
\* throws.
ParseArguments ==
    /\ mainPc = "start"
    /\ LET parsed == parseArguments(arguments)
       IN  IF parsed.error = "none"
           THEN /\ config' = parsed.config
                /\ mainPc' = "run"
                /\ UNCHANGED workerExit
           ELSE /\ workerExit' = mainCatch(parsed.error)
                /\ mainPc' = "exited"
                /\ UNCHANGED config
    /\ UNCHANGED <<arguments, authorizationRequested, authorizationStatus, recognizer>>
    /\ UNCHANGED <<waiterPc, waitResult, semaphore, deadlinePassed, timedOut,
                   runLoopStopped, hasReceivedAnyResult, finalResult, finalError, task,
                   taskStarted, delivered, beforeDeadline>>
    /\ UNCHANGED outsideWorker

\* run begins: it logs to stderr, and ensureAuthorization calls
\* SFSpeechRecognizer.requestAuthorization and waits on its semaphore.
RequestAuthorization ==
    /\ mainPc = "run"
    /\ authorizationRequested' = TRUE
    /\ mainPc' = "authorizing"
    /\ UNCHANGED <<arguments, config, authorizationStatus, recognizer>>
    /\ UNCHANGED <<waiterPc, waitResult, semaphore, deadlinePassed, timedOut,
                   runLoopStopped, hasReceivedAnyResult, finalResult, finalError, task,
                   taskStarted, delivered, beforeDeadline, workerExit>>
    /\ UNCHANGED outsideWorker

\* The platform answers with a status; ensureAuthorization returns or throws.
AuthorizationAnswered ==
    /\ mainPc = "authorizing"
    /\ \E newStatus \in AuthorizationStatuses :
           /\ authorizationStatus' = newStatus
           /\ IF ensureAuthorization(newStatus) = "none"
              THEN /\ mainPc' = "recognizer"
                   /\ UNCHANGED workerExit
              ELSE /\ workerExit' = mainCatch(ensureAuthorization(newStatus))
                   /\ mainPc' = "exited"
    /\ UNCHANGED <<arguments, config, authorizationRequested, recognizer>>
    /\ UNCHANGED <<waiterPc, waitResult, semaphore, deadlinePassed, timedOut,
                   runLoopStopped, hasReceivedAnyResult, finalResult, finalError, task,
                   taskStarted, delivered, beforeDeadline>>
    /\ UNCHANGED outsideWorker

\* run from the construction of the recognizer up to CFRunLoopRun().  Either a
\* guard throws before the task exists, or the task is started and the block on
\* waitQueue begins to wait.
WorkerStarts ==
    /\ mainPc = "recognizer"
    /\ \E made \in {"nil", "unavailable", "available"} :
           LET error == recognizerGuards(made # "nil", made = "available")
           IN  /\ recognizer' = made
               /\ IF error = "none"
                  THEN /\ task' = "running"
                       /\ taskStarted' = TRUE
                       /\ waiterPc' = "waiting"
                       /\ mainPc' = "beforeLoop"
                       /\ UNCHANGED workerExit
                  ELSE /\ workerExit' = [mainCatch(error) EXCEPT !.ran = TRUE]
                       /\ mainPc' = "exited"
                       /\ UNCHANGED <<task, taskStarted, waiterPc>>
    /\ UNCHANGED <<waitResult, semaphore, deadlinePassed, timedOut, runLoopStopped,
                   hasReceivedAnyResult, finalResult, finalError, delivered,
                   beforeDeadline>>
    /\ UNCHANGED <<arguments, config, authorizationRequested, authorizationStatus>>
    /\ UNCHANGED outsideWorker

\* The main thread calls CFRunLoopRun().  The block given to waitQueue.async runs
\* on another thread from the moment it was dispatched, so the main thread enters
\* the run loop at any point of the block's execution.
RunLoopEntered ==
    /\ mainPc = "beforeLoop"
    /\ mainPc' = "runLoop"
    /\ UNCHANGED <<waiterPc, waitResult, semaphore, deadlinePassed, timedOut,
                   runLoopStopped, hasReceivedAnyResult, finalResult, finalError, task,
                   taskStarted, delivered, beforeDeadline, workerExit>>
    /\ UNCHANGED startupVars
    /\ UNCHANGED outsideWorker

\* The run loop runs the recognition handler (the recognizer calls back on the
\* main queue, which only the run loop serves).  The recognizer calls back until it
\* has delivered a final result or an error.
RecognitionCallback ==
    /\ mainPc = "runLoop"
    /\ task = "running"
    /\ delivered < MaxCallbacks
    /\ \E k \in CallbackKinds :
           LET result == IF k.result = "none" THEN NoRecognition
                         ELSE [id |-> delivered + 1, isFinal |-> k.result = "final"]
               c == recognitionHandler(Captured, result, k.error)
           IN  /\ hasReceivedAnyResult' = c.hasReceivedAnyResult
               /\ finalResult' = c.finalResult
               /\ finalError' = c.finalError
               /\ semaphore' = c.semaphore
               /\ task' = IF k.result = "final" \/ k.error THEN "finished" ELSE task
               /\ beforeDeadline' =
                      IF deadlinePassed THEN beforeDeadline
                      ELSE beforeDeadline
                               \cup (IF k.result = "none" THEN {} ELSE {k.result})
                               \cup (IF k.error THEN {"error"} ELSE {})
    /\ delivered' = delivered + 1
    /\ UNCHANGED <<mainPc, waiterPc, waitResult, deadlinePassed, timedOut,
                   runLoopStopped, taskStarted, workerExit>>
    /\ UNCHANGED startupVars
    /\ UNCHANGED outsideWorker

\* semaphore.wait(timeout:) returns .success: the semaphore was signalled.
WaitSignalled ==
    /\ waiterPc = "waiting"
    /\ semaphore > 0
    /\ waitResult' = "success"
    /\ semaphore' = semaphore - 1
    /\ waiterPc' = "woke"
    /\ UNCHANGED <<mainPc, deadlinePassed, timedOut, runLoopStopped,
                   hasReceivedAnyResult, finalResult, finalError, task, taskStarted,
                   delivered, beforeDeadline, workerExit>>
    /\ UNCHANGED startupVars
    /\ UNCHANGED outsideWorker

\* semaphore.wait(timeout:) returns .timedOut: the deadline has come and the
\* semaphore was not signalled.
WaitTimesOut ==
    /\ waiterPc = "waiting"
    /\ semaphore = 0
    /\ waitResult' = "timedOut"
    /\ deadlinePassed' = TRUE
    /\ waiterPc' = "woke"
    /\ UNCHANGED <<mainPc, semaphore, timedOut, runLoopStopped,
                   hasReceivedAnyResult, finalResult, finalError, task, taskStarted,
                   delivered, beforeDeadline, workerExit>>
    /\ UNCHANGED startupVars
    /\ UNCHANGED outsideWorker

\* CFRunLoopStop(rl): marks the current activation of the run loop stopped.  A
\* run loop that is not running has no activation: the call does nothing, and
\* a later CFRunLoopRun() starts an activation that is not stopped
\* (CFRunLoop.c: the stopped flag is set only `if (rl->_currentMode)`).
CFRunLoopStop(running) == running

\* timedOut.store(waitResult == .timedOut); CFRunLoopStop(CFRunLoopGetMain())
WaiterStopsRunLoop ==
    /\ waiterPc = "woke"
    /\ timedOut' = (waitResult = "timedOut")
    /\ runLoopStopped' = CFRunLoopStop(mainPc = "runLoop")
    /\ waiterPc' = "done"
    /\ UNCHANGED <<mainPc, waitResult, semaphore, deadlinePassed,
                   hasReceivedAnyResult, finalResult, finalError, task, taskStarted,
                   delivered, beforeDeadline, workerExit>>
    /\ UNCHANGED startupVars
    /\ UNCHANGED outsideWorker

\* CFRunLoopRun() returns.
RunLoopReturns ==
    /\ mainPc = "runLoop"
    /\ runLoopStopped
    /\ mainPc' = "afterLoop"
    /\ UNCHANGED <<waiterPc, waitResult, semaphore, deadlinePassed, timedOut,
                   runLoopStopped, hasReceivedAnyResult, finalResult, finalError, task,
                   taskStarted, delivered, beforeDeadline, workerExit>>
    /\ UNCHANGED startupVars
    /\ UNCHANGED outsideWorker

\* task.cancel()
TaskCancelled ==
    /\ mainPc = "afterLoop"
    /\ task' = taskCancel(task)
    /\ mainPc' = "cancelled"
    /\ UNCHANGED <<waiterPc, waitResult, semaphore, deadlinePassed, timedOut,
                   runLoopStopped, hasReceivedAnyResult, finalResult, finalError,
                   taskStarted, delivered, beforeDeadline, workerExit>>
    /\ UNCHANGED startupVars
    /\ UNCHANGED outsideWorker

\* run goes on to its end, returning after it has written the payload or throwing,
\* and the process exits.
WorkerExits ==
    /\ mainPc = "cancelled"
    /\ workerExit' = runAfterLoop(timedOut, hasReceivedAnyResult, finalError, finalResult)
    /\ mainPc' = "exited"
    /\ UNCHANGED <<waiterPc, waitResult, semaphore, deadlinePassed, timedOut,
                   runLoopStopped, hasReceivedAnyResult, finalResult, finalError, task,
                   taskStarted, delivered, beforeDeadline>>
    /\ UNCHANGED startupVars
    /\ UNCHANGED outsideWorker

\* What the worker wrote to stdout: the usage text, the payload and a line end, or
\* nothing.
workerStdout(exit) ==
    IF exit.usage THEN <<[kind |-> "Usage: speech <audio-file-path> ...", len |-> ExcerptLimit]>>
    ELSE IF exit.payload # NoRecognition
    THEN <<[kind |-> "json", len |-> ExcerptLimit], [kind |-> "ws", len |-> 1]>>
    ELSE <<>>

\* AppError.description and error.localizedDescription, as main writes them
\* ([x] stands for the cross mark the line begins with).
errorLine(error) ==
    CASE error = "fileNotFound" ->
             [kind |-> "[x] Audio file not found at path: ...", len |-> 32]
      [] error = "invalidLocale" ->
             [kind |-> "[x] Invalid locale identifier: ...", len |-> 29]
      [] error = "authorizationDenied" ->
             [kind |-> "[x] Speech recognition authorization was denied. ...", len |-> 118]
      [] error = "recognitionUnavailable" ->
             [kind |-> "[x] Speech recognition is not available ...", len |-> 77]
      [] error = "timeout" ->
             [kind |-> "[x] Speech recognition timed out before receiving a response.",
              len |-> 59]
      [] OTHER ->
             [kind |-> "[x] Unexpected error: ...", len |-> 22]

\* What the worker wrote to stderr: the [speech] lines of run, when run got that
\* far, and the line of the error it ended with.
workerStderr(exit) ==
    (IF ~exit.ran
     THEN <<>>
     ELSE <<[kind |-> "[speech] ...", len |-> ExcerptLimit], [kind |-> "ws", len |-> 1]>>)
    \o (IF exit.error = "none" THEN <<>>
        ELSE <<errorLine(exit.error), [kind |-> "ws", len |-> 1]>>)

\* What transcribeAudioFile makes of a worker that ended like this.
protocolResult(exit) ==
    transcribeAudioFileResult(
        runProcessResolve([code |-> exit.code, signal |-> FALSE],
                          workerStdout(exit), workerStderr(exit)))

InitWorker ==
    /\ SchedulerInit
    /\ ProtocolUnused
    /\ HandlerUnused
    /\ FunctionsUnused
    /\ arguments \in CommandLines
    /\ WorkerStart

NextWorker ==
    \/ ParseArguments
    \/ RequestAuthorization
    \/ AuthorizationAnswered
    \/ WorkerStarts
    \/ RunLoopEntered
    \/ RecognitionCallback
    \/ WaitSignalled
    \/ WaitTimesOut
    \/ WaiterStopsRunLoop
    \/ RunLoopReturns
    \/ TaskCancelled
    \/ WorkerExits

SpecWorker == InitWorker /\ [][NextWorker]_workerVars

\* The worker with its two threads scheduled fairly: a thread that can take its
\* next step takes it, and the timed wait returns when its deadline comes.
\* Nothing obliges the recognizer to call back or the platform to answer the
\* request for authorization.
SpecWorkerFair ==
    /\ SpecWorker
    /\ WF_workerVars(WorkerStarts)
    /\ WF_workerVars(RunLoopEntered)
    /\ WF_workerVars(WaitSignalled)
    /\ WF_workerVars(WaitTimesOut)
    /\ WF_workerVars(WaiterStopsRunLoop)
    /\ WF_workerVars(RunLoopReturns)
    /\ WF_workerVars(TaskCancelled)
    /\ WF_workerVars(WorkerExits)

----------------------------------------------------------------------------
(* The payload of the speech worker: RecognitionPayload.init and average    *)
(*                                                                         *)
(* A Float is the fraction num/den it stands for; the rounding of Float    *)
(* arithmetic is not modelled.  Of a segment the substring and the         *)
(* confidence are kept.                                                    *)

\* Bound: segments of one transcription.
MaxSegments == 3

\* The confidences a segment comes with, in tenths.
Tenths == {0, 6, 8, 10}

\* The Float for v tenths.
Float(v) == [num |-> v, den |-> 10]

\* var total: Float = 0
FloatZero == [num |-> 0, den |-> 1]

\* total += value
FloatAdd(a, b) == [num |-> a.num * b.den + b.num * a.den, den |-> a.den * b.den]

\* total / count
FloatDiv(a, count) == [num |-> a.num, den |-> a.den * count]

\* result.bestTranscription.segments: what the recognizer can hand over.
Segments == [substring : {"seam", "test"}, confidence : {Float(v) : v \in Tenths}]

Transcriptions == UNION {[1..n -> Segments] : n \in 0..MaxSegments}

\* The loop of average and its return.
RECURSIVE averageLoop(_, _, _)
averageLoop(values, total, count) ==
    IF values = <<>>
    THEN IF count > 0 THEN FloatDiv(total, count) ELSE FloatZero
    ELSE averageLoop(Tail(values), FloatAdd(total, Head(values)), count + 1)

\* average with count starting at 1.
averageCountingFromOne(values) == averageLoop(values, FloatZero, 1)

\* extension Sequence where Element == Float { var average: Float }
average(values) == averageLoop(values, FloatZero, 0)

\* RecognitionPayload.init(result:locale:audioURL:)
RecognitionPayload(segments) ==
    [confidence |-> average([i \in 1..Len(segments) |-> segments[i].confidence]),
     segments |-> [i \in 1..Len(segments) |->
                      [substring |-> segments[i].substring,
                       confidence |-> segments[i].confidence]],
     built |-> TRUE]

\* let payload = RecognitionPayload(result: result, ...)
BuildPayload ==
    /\ ~recognitionPayload.built
    /\ recognitionPayload' = RecognitionPayload(transcription)
    /\ UNCHANGED <<transcription, environment, binaryPath, resolution, mimeType,
                   extension>>
    /\ UNCHANGED <<keyVars, outsideFunctions>>

\* The functions that are not the one a specification is about.
PayloadUnused == transcription = <<>> /\ recognitionPayload = NoPayload
ResolveUnused ==
    /\ environment = [SEAM_SPEECH_BIN |-> "undefined", isPackaged |-> FALSE, files |-> {}]
    /\ binaryPath = Unresolved
    /\ resolution = "none"
MimeUnused == mimeType = <<>> /\ extension = NoExtension

InitPayload ==
    /\ SchedulerInit
    /\ ProtocolUnused
    /\ HandlerUnused
    /\ WorkerInit
    /\ KeyUnused
    /\ ResolveUnused
    /\ MimeUnused
    /\ transcription \in Transcriptions
    /\ recognitionPayload = NoPayload

NextPayload == BuildPayload

SpecPayload == InitPayload /\ [][NextPayload]_functionVars

----------------------------------------------------------------------------
(* The worker binary: resolveSpeechBinary and the check of transcribeAudioFile *)

\* The value SEAM_SPEECH_BIN can name, resolvePath(process.resourcesPath, 'speech')
\* and resolvePath(baseDir, 'native', 'speech', '.build', 'debug', 'speech').
OverridePath == "/opt/seam/speech"
PackagedPath == "Resources/speech"
DevelopmentPath == "native/speech/.build/debug/speech"

\* process.env.SEAM_SPEECH_BIN, app.isPackaged and the files on disk.
Environments ==
    [SEAM_SPEECH_BIN : {Undefined, "", OverridePath},
     isPackaged : BOOLEAN,
     files : SUBSET {OverridePath, PackagedPath, DevelopmentPath}]

\* resolveSpeechBinary asking app.isPackaged before SEAM_SPEECH_BIN.
resolveSpeechBinaryPackagedFirst(env) ==
    IF env.isPackaged THEN PackagedPath
    ELSE IF Truthy(env.SEAM_SPEECH_BIN) THEN env.SEAM_SPEECH_BIN
    ELSE DevelopmentPath

\* resolveSpeechBinary()
resolveSpeechBinary(env) ==
    IF Truthy(env.SEAM_SPEECH_BIN) THEN env.SEAM_SPEECH_BIN
    ELSE IF env.isPackaged THEN PackagedPath
    ELSE DevelopmentPath

\* existsSync(binary)
existsSync(env, path) == path \in env.files

\* const binary = resolveSpeechBinary()
ResolveSpeechBinary ==
    /\ binaryPath = Unresolved
    /\ binaryPath' = resolveSpeechBinary(environment)
    /\ UNCHANGED <<transcription, recognitionPayload, environment, resolution, mimeType,
                   extension>>
    /\ UNCHANGED <<keyVars, outsideFunctions>>

\* if (!existsSync(binary)) throw new Error(`Speech binary not found at ...`);
\* otherwise transcribeAudioFile goes on to spawn the binary.
BinaryChecked ==
    /\ binaryPath # Unresolved
    /\ resolution = "none"
    /\ resolution' = IF existsSync(environment, binaryPath) THEN "spawn"
                     ELSE "binaryNotFound"
    /\ UNCHANGED <<transcription, recognitionPayload, environment, binaryPath, mimeType,
                   extension>>
    /\ UNCHANGED <<keyVars, outsideFunctions>>

InitResolve ==
    /\ SchedulerInit
    /\ ProtocolUnused
    /\ HandlerUnused
    /\ WorkerInit
    /\ KeyUnused
    /\ PayloadUnused
    /\ MimeUnused
    /\ environment \in Environments
    /\ binaryPath = Unresolved
    /\ resolution = "none"

NextResolve ==
    \/ ResolveSpeechBinary
    \/ BinaryChecked

SpecResolve == InitResolve /\ [][NextResolve]_functionVars

----------------------------------------------------------------------------
(* extensionFromMime                                                       *)
(*                                                                         *)
(* A MIME type is a sequence of pieces, each a run of characters in one    *)
(* spelling; the words extensionFromMime looks for occur as whole pieces,  *)
(* in lower case, upper case or mixed.                                     *)

\* Bound: pieces of one MIME type.
MaxPieces == 2

MimePieces ==
    {"audio/", "video/", "x-", "mpeg", ";codecs=opus",
     "wav", "WAV", "m4a", "M4A", "aac", "AAC", "mp4", "Mp4", "webm", "WebM", "ogg", "OGG"}

MimeTypes == UNION {[1..n -> MimePieces] : n \in 0..MaxPieces}

\* String.prototype.toLowerCase, piece by piece.
toLowerCase(text) ==
    [i \in DOMAIN text |->
        CASE text[i] = "WAV" -> "wav"
          [] text[i] = "M4A" -> "m4a"
          [] text[i] = "AAC" -> "aac"
          [] text[i] = "Mp4" -> "mp4"
          [] text[i] = "WebM" -> "webm"
          [] text[i] = "OGG" -> "ogg"
          [] OTHER -> text[i]]

\* String.prototype.includes
includes(text, word) == \E i \in DOMAIN text : text[i] = word

\* extensionFromMime without toLowerCase.
extensionFromMimeCaseSensitive(type) ==
    LET normalized == type
    IN  IF includes(normalized, "wav") THEN "wav"
        ELSE IF includes(normalized, "m4a") \/ includes(normalized, "aac") THEN "m4a"
        ELSE IF includes(normalized, "mp4") THEN "m4a"
        ELSE IF includes(normalized, "webm") THEN "webm"
        ELSE IF includes(normalized, "ogg") THEN "ogg"
        ELSE "m4a"

\* extensionFromMime(mimeType)
extensionFromMime(type) ==
    LET normalized == toLowerCase(type)
    IN  IF includes(normalized, "wav") THEN "wav"
        ELSE IF includes(normalized, "m4a") \/ includes(normalized, "aac") THEN "m4a"
        ELSE IF includes(normalized, "mp4") THEN "m4a"
        ELSE IF includes(normalized, "webm") THEN "webm"
        ELSE IF includes(normalized, "ogg") THEN "ogg"
        ELSE "m4a"

\* const extension = extensionFromMime(payload.mimeType)
ExtensionSelected ==
    /\ extension = NoExtension
    /\ extension' = extensionFromMime(mimeType)
    /\ UNCHANGED <<transcription, recognitionPayload, environment, binaryPath,
                   resolution, mimeType>>
    /\ UNCHANGED <<keyVars, outsideFunctions>>

InitMime ==
    /\ SchedulerInit
    /\ ProtocolUnused
    /\ HandlerUnused
    /\ WorkerInit
    /\ KeyUnused
    /\ PayloadUnused
    /\ ResolveUnused
    /\ mimeType \in MimeTypes
    /\ extension = NoExtension

NextMime == ExtensionSelected

SpecMime == InitMime /\ [][NextMime]_functionVars

----------------------------------------------------------------------------
(* The API key of the AI provider *)

\* JavaScript truthiness of undefined, null and strings: only the empty string is
\* a falsy string.
Falsy(value) == value.kind \in {"undefined", "null"} \/ value.text = ""

\* a || b
OrElse(a, b) == IF Falsy(a) THEN b ELSE a

\* type AIProvider = 'gemini' | 'claude' | 'chatgpt'
AIProviders == {"gemini", "claude", "chatgpt"}

\* The keys validateAPIKey is given (string | undefined): a key of each provider,
\* the empty string, a blank, and none.
ApiKeys == {JsUndefined, Str(""), Str(" "), Str("AIza_test_key_123"),
            Str("sk-ant-test-key-123")}

\* const providerNames = {...}; providerNames[provider] of a name that is not a
\* property is undefined, which the template literal prints as "undefined".
providerNames(provider) ==
    CASE provider = "gemini" -> "Gemini"
      [] provider = "claude" -> "Claude"
      [] provider = "chatgpt" -> "ChatGPT"
      [] OTHER -> "undefined"

\* validateAPIKey that accepts every string.
validateAPIKeyUndefinedOnly(apiKey, provider) ==
    IF apiKey.kind = "undefined"
    THEN <<"Error", providerNames(provider), " API key is not configured",
           ". Please set it in Settings.">>
    ELSE <<"returned">>

\* validateAPIKey(apiKey, provider): <<"returned">>, or the Error with the pieces
\* of its message.
validateAPIKey(apiKey, provider) ==
    IF Falsy(apiKey)
    THEN <<"Error", providerNames(provider), " API key is not configured",
           ". Please set it in Settings.">>
    ELSE <<"returned">>

\* What a row of the settings table can hold: the table is written by
\* seam:set-setting with any key and value. null: no row.
SettingValues == {JsNull, Str(""), Str("AIza_test_key_123")}
ProviderValues == {JsNull, Str("")} \cup {Str(p) : p \in AIProviders \cup {"openai"}}

\* getSetting(key): row?.value ?? null
getSetting(table, key) == table[key]

\* The sessions a call can name: none, one without a row, or one with a provider.
Sessions == {[sessionId |-> JsUndefined, ai_provider |-> JsNull],
             [sessionId |-> Str("s1"), ai_provider |-> JsUndefined],
             [sessionId |-> Str("s1"), ai_provider |-> JsNull],
             [sessionId |-> Str("s1"), ai_provider |-> Str("claude")]}

\* getAIProviderConfig(sessionId)
getAIProviderConfig(table, sess) ==
    LET provider == IF ~Falsy(sess.sessionId)
                    THEN OrElse(sess.ai_provider, Str("gemini")).text
                    ELSE OrElse(getSetting(table, "ai_provider"), Str("gemini")).text
        apiKey == CASE provider = "gemini" ->
                           OrElse(getSetting(table, "gemini_api_key"), JsUndefined)
                    [] provider = "claude" ->
                           OrElse(getSetting(table, "claude_api_key"), JsUndefined)
                    [] provider = "chatgpt" ->
                           OrElse(getSetting(table, "chatgpt_api_key"), JsUndefined)
                    [] OTHER -> JsUndefined
        checked == validateAPIKey(apiKey, provider)
    IN  IF checked[1] = "Error"
        THEN [returned |-> FALSE, thrown |-> TRUE, provider |-> Str(provider),
              apiKey |-> apiKey, message |-> checked]
        ELSE [returned |-> TRUE, thrown |-> FALSE, provider |-> Str(provider),
              apiKey |-> apiKey, message |-> <<>>]

ValidateAPIKey ==
    /\ keyCheck.outcome = <<"pending">>
    /\ keyCheck' = [keyCheck EXCEPT !.outcome = validateAPIKey(keyCheck.apiKey,
                                                               keyCheck.provider)]
    /\ UNCHANGED <<settings, session, aiProviderConfig>>
    /\ UNCHANGED <<transcription, recognitionPayload, environment, binaryPath, resolution,
                   mimeType, extension>>
    /\ UNCHANGED outsideFunctions

GetAIProviderConfig ==
    /\ aiProviderConfig = NoConfiguration
    /\ aiProviderConfig' = getAIProviderConfig(settings, session)
    /\ UNCHANGED <<settings, session, keyCheck>>
    /\ UNCHANGED <<transcription, recognitionPayload, environment, binaryPath, resolution,
                   mimeType, extension>>
    /\ UNCHANGED outsideFunctions

InitKey ==
    /\ SchedulerInit
    /\ ProtocolUnused
    /\ HandlerUnused
    /\ WorkerInit
    /\ PayloadUnused
    /\ ResolveUnused
    /\ MimeUnused
    /\ settings \in [ai_provider : ProviderValues, gemini_api_key : SettingValues,
                     claude_api_key : SettingValues, chatgpt_api_key : SettingValues]
    /\ session \in Sessions
    /\ keyCheck \in [apiKey : ApiKeys, provider : AIProviders, outcome : {<<"pending">>}]
    /\ aiProviderConfig = NoConfiguration

NextKey ==
    \/ ValidateAPIKey
    \/ GetAIProviderConfig

SpecKey == InitKey /\ [][NextKey]_functionVars

----------------------------------------------------------------------------
(* Properties of the Recording Cycle Scheduler *)

Recording == {r \in Recorders : recState[r] = "recording"}

\* The recorders that start recording in this step.
Started == {r \in Recorders : recState[r] # "recording" /\ recState'[r] = "recording"}

\* The recorders whose stop event is handled in this step.
StopHandled == {r \in stopEventPending : r \notin stopEventPending'}

\* C1. Single-flight: at most one recognition request dispatched through
\* transcribeChunk is in flight, and the in-flight flag is set exactly while one is.
SingleFlight ==
    /\ Cardinality(requests) <= 1
    /\ transcriptionQueueRef <=> requests # {}

\* A request is outstanding, a later segment met the held gate, and capture goes on.
SingleFlightWitness ==
    /\ requests # {}
    /\ dropped # {}
    /\ Recording # {}

\* C2. Drop, never queue: a segment whose cycle ends while the in-flight flag is set
\* is never dispatched (no request ever carries it), and in continuous mode the
\* step that drops it still schedules the next cycle.
DropNeverQueue ==
    [][ /\ \A req \in requests' : req.seg \notin dropped'
        /\ \A r \in dropped' \ dropped :
              continuousModeRef =>
                  /\ <<"next", r>> \in cycleTimers'
                  /\ continuousCycleTimerRef' = <<"next", r>> ]_vars

\* A segment was dropped in continuous mode and the cycle after it is recording,
\* while the request that held the gate is still outstanding.
DropNeverQueueWitness ==
    \E r \in dropped, req \in requests :
        /\ req.seg < r
        /\ continuousModeRef
        /\ \E q \in Recording : q > r

\* C3. Minimum-size filtering: a segment below the scheduler threshold never reaches
\* transcribeAudioFile, and a dispatched segment (size >= threshold, gate free)
\* always reaches it.
MinimumSizeFiltering ==
    \A req \in requests :
        /\ req.pc = "worker" => req.size >= MinChunkBytes
        /\ req.size >= MinChunkBytes => req.pc # "rejected"

\* C4. Capture is not stalled by recognition: in continuous mode the handling of a
\* cycle's stop event schedules the next cycle whether or not a request is
\* outstanding, and the next-cycle timer starts a recorder when it fires.
CaptureNotStalled ==
    [][ /\ \A r \in StopHandled :
              continuousModeRef =>
                  /\ <<"next", r>> \in cycleTimers'
                  /\ continuousCycleTimerRef' = <<"next", r>>
        /\ \A t \in cycleTimers \ cycleTimers' :
              (t[1] = "next" /\ streamRef' # Null) => Started # {} ]_vars

\* A cycle is recording that was started while the request of an earlier cycle of
\* the same run was, and still is, outstanding.
CaptureNotStalledWitness ==
    \E req \in requests, r \in Recording :
        /\ r > req.seg
        /\ recStream[r] = recStream[req.seg]
        /\ transcriptionQueueRef
        /\ continuousModeRef

\* C5. No cycle starts after stop: once stopRecording has returned, no recorder is
\* started until startRecording is called again.
NoCycleAfterStop ==
    [][stoppedSinceStart => Started = {}]_vars

\* The streams whose tracks have not been stopped: the microphone is held.
LiveStreams == {s \in Streams : streamState[s] = "live"}

\* C6. Stop releases capture resources: after stopRecording and the handling of the
\* recorder stop event it caused, the stream is released (tracks stopped, handle
\* cleared) and no cycle, elapsed or summary timer is pending.
StopReleasesCapture ==
    (stoppedSinceStart /\ stopEventPending = {}) =>
        /\ streamRef = Null
        /\ LiveStreams = {}
        /\ cycleTimers = {}
        /\ intervalTimers = {}
        /\ summaryTimers = {}

\* What stopRecording can change: everything but the history of the calls.
SchedulerState ==
    <<status, continuousModeRef, streamRef, recorderRef, transcriptionQueueRef,
      continuousCycleTimerRef, timerRef, summaryTimerRef, chunksRef, recState,
      recStream, stopEventPending, streamState, gumPending, cycleTimers,
      intervalTimers, summaryTimers, requests>>

\* C7. Idempotent stop: a stopRecording call that directly follows another one
\* changes nothing (the state after the second call is the state after the first),
\* and a stopRecording call that is the second in a row, or is made when no cycle
\* was ever started, leaves the capture device unacquired.
IdempotentStop ==
    [][ /\ (stopJustReturned /\ stopJustReturned') =>
              /\ SchedulerState' = SchedulerState
              /\ streamRef' = Null /\ LiveStreams' = {}
        /\ (stopJustReturned' /\ \A r \in Recorders : recState[r] = "unused") =>
              /\ streamRef' = Null /\ LiveStreams' = {} ]_vars

\* C8. Stop clears the dispatch gate: when stopRecording returns, the in-flight
\* flag is clear.
StopClearsGate ==
    stopJustReturned => ~transcriptionQueueRef

\* C9. At most one capture cycle is active: at most one recorder is in the
\* recording state.
AtMostOneRecording ==
    Cardinality(Recording) <= 1

\* C10. Per-request failures never abort continuous mode: whatever failure a
\* request that is in flight comes back with, handling it leaves the status, the
\* continuous-mode flag, the stream, the recorders and the cycle timers as they
\* are (so the cycle loop goes on) and frees the gate.
FailuresNeverAbort ==
    \A req \in requests, outcome \in FailureOutcomes :
        req.pc \in {"worker", "rejected"} =>
            LET after == transcribeBlobSettled(State, req, outcome)
            IN  /\ after.status = status
                /\ after.continuousModeRef = continuousModeRef
                /\ after.streamRef = streamRef
                /\ after.streamState = streamState
                /\ after.recorderRef = recorderRef
                /\ after.recState = recState
                /\ after.stopEventPending = stopEventPending
                /\ after.cycleTimers = cycleTimers
                /\ after.continuousCycleTimerRef = continuousCycleTimerRef
                /\ ~after.transcriptionQueueRef

\* A request has failed and left nothing behind, continuous mode is still on, and
\* the last cycle the bound allows is recording.
FailuresNeverAbortWitness ==
    /\ lastOutcome = "failed"
    /\ status = "recording"
    /\ continuousModeRef
    /\ requests = {}
    /\ Cardinality(Recording) = 1
    /\ \A r \in Recorders : recState[r] # "unused"

\* C12. Configuration-fatal handling: once a request has failed because the worker
\* binary is missing, no step dispatches a new recognition request.
ConfigurationFatalBlocksDispatch ==
    [][lastOutcome = "binaryMissing" => \A req \in requests' : req \in requests]_vars

----------------------------------------------------------------------------
(* Properties of the Transcription Protocol *)

\* A locale was supplied: the argument is a locale identifier (a string that is
\* not empty).
LocaleSupplied == locale # Undefined /\ locale # ""

\* C11. One process per request: once transcribeAudioFile has been called, it has
\* spawned exactly one worker if the resolved binary exists and none if it does
\* not, in which case it has failed with the binary-not-found error; the worker's
\* arguments are the audio path, --json and a --timeout flag, followed by
\* --locale=<id> exactly when a locale was supplied.
OneProcessPerRequest ==
    callPc # "idle" =>
        /\ spawnCount = (IF binaryExists THEN 1 ELSE 0)
        /\ ~binaryExists =>
               /\ callPc = "done"
               /\ callResult.category = "binaryNotFound"
               /\ childArgs = <<>>
        /\ binaryExists =>
               /\ callResult.category # "binaryNotFound"
               /\ SubSeq(childArgs, 1, 3)
                      = <<Arg("", audioPath), Arg("--json", ""), Arg("--timeout=", "60")>>
               /\ Len(childArgs) = (IF LocaleSupplied THEN 4 ELSE 3)
               /\ LocaleSupplied => childArgs[4] = Arg("--locale=", locale)

\* A call with a locale has spawned its worker and come back with a result.
OneProcessPerRequestWitness ==
    /\ callPc = "done"
    /\ binaryExists
    /\ spawnCount = 1
    /\ Len(childArgs) = 4
    /\ callResult.category = "success"

\* The runs of a text that are not white space.
Content(t) == SelectSeq(t, LAMBDA r : r.kind # "ws")

\* A text without white space at either end.
IsTrimmed(t) == t = <<>> \/ (t[1].kind # "ws" /\ t[Len(t)].kind # "ws")

\* s is t without the white space at its ends.
IsTrimOf(s, t) ==
    /\ IsTrimmed(s)
    /\ \E i \in 0..Len(t), j \in 0..Len(t) :
           /\ i + Len(s) + j = Len(t)
           /\ \A k \in 1..i : t[k].kind = "ws"
           /\ \A k \in 1..j : t[Len(t) + 1 - k].kind = "ws"
           /\ \A k \in 1..Len(s) : s[k] = t[i + k]

\* The text is one JSON value with nothing but white space around it.
Parsable(t) == Len(Content(t)) = 1 /\ Content(t)[1].kind = "json"

\* The message has the part p.
Says(message, p) == \E i \in DOMAIN message : message[i] = p

\* The message quotes the text t.
Quotes(message, t) == Says(message, Txt(t))

\* s is a prefix of t, character by character.
IsPrefixOf(s, t) ==
    \/ s = <<>>
    \/ /\ Len(s) <= Len(t)
       /\ \A i \in 1..(Len(s) - 1) : s[i] = t[i]
       /\ s[Len(s)].kind = t[Len(s)].kind
       /\ s[Len(s)].len <= t[Len(s)].len

\* C13. Exit-code/stdout matrix: once the child has closed, the call's outcome is
\* the one category the exit code and the stdout text decide: a failure when the
\* exit code is not 0; otherwise the no-output failure when stdout is empty or
\* white space; otherwise success, returning the JSON value as it was written,
\* when what stdout holds parses, and the parse failure when it does not.  A call
\* that has no ProcessOutcome never succeeds.
ExitCodeStdoutMatrix ==
    /\ processOutcome.closed =>
           /\ callPc = "done"
           /\ callResult.category =
                  (IF processOutcome.exitCode # 0 THEN "processFailed"
                   ELSE IF Content(processOutcome.stdout) = <<>> THEN "noOutput"
                   ELSE IF Parsable(processOutcome.stdout) THEN "success"
                   ELSE "parseFailure")
           /\ callResult.category = "success" =>
                  /\ callResult.value = Content(processOutcome.stdout)
                  /\ callResult.message = <<>>
    /\ ~processOutcome.closed => callResult.category # "success"

\* The worker exited with 0 and wrote one JSON value with white space before and
\* after it; the call returned that value.
ExitCodeStdoutMatrixWitness ==
    /\ processOutcome.closed
    /\ processOutcome.exitCode = 0
    /\ Len(processOutcome.stdout) = 3
    /\ processOutcome.stdout[1].kind = "ws"
    /\ processOutcome.stdout[3].kind = "ws"
    /\ processOutcome.stderr # <<>>
    /\ callResult.category = "success"

\* C14. Non-zero exit message: when the worker exits with a code other than 0, the
\* failure message is stderr without the white space at its ends if that is not
\* empty, and otherwise the generic text with the exit code, whatever stdout holds.
NonZeroExitMessage ==
    (processOutcome.closed /\ processOutcome.exitCode # 0) =>
        IF Content(processOutcome.stderr) # <<>>
        THEN /\ Len(callResult.message) = 1
             /\ callResult.message[1].part = "txt"
             /\ IsTrimOf(callResult.message[1].t, processOutcome.stderr)
        ELSE callResult.message
                 = <<Lit(ExitedWithCodeText), Num(processOutcome.exitCode)>>

\* The worker failed after writing a JSON value to stdout and, to stderr, a text
\* with white space at an end.
NonZeroExitMessageWitness ==
    /\ processOutcome.closed
    /\ processOutcome.exitCode = 2
    /\ Parsable(processOutcome.stdout)
    /\ Content(processOutcome.stderr) # <<>>
    /\ ~IsTrimmed(processOutcome.stderr)
    /\ callResult.category = "processFailed"

\* C15. Empty-output failure: when the worker exits with 0 and stdout is empty or
\* white space, the failure message has the format-mismatch hint, and also quotes
\* stderr whenever stderr is not empty.
EmptyOutputFailure ==
    (processOutcome.closed /\ processOutcome.exitCode = 0
         /\ Content(processOutcome.stdout) = <<>>) =>
        /\ callResult.category = "noOutput"
        /\ Says(callResult.message, Lit(FormatHintText))
        /\ Content(processOutcome.stderr) # <<>> =>
               \E i \in DOMAIN callResult.message :
                   /\ callResult.message[i].part = "txt"
                   /\ IsTrimOf(callResult.message[i].t, processOutcome.stderr)

\* C16. Bounded parse-failure excerpt: when stdout does not parse, the failure
\* message has the parse error and quotes one text, a prefix of the output of at
\* most 200 characters, which is not the whole output when that is longer.
BoundedParseFailureExcerpt ==
    callResult.category = "parseFailure" =>
        /\ Says(callResult.message, Lit(FailedToParseText))
        /\ Says(callResult.message, Lit("SyntaxError"))
        /\ \E i \in DOMAIN callResult.message :
               /\ callResult.message[i].part = "txt"
               /\ \E output \in {SubSeq(processOutcome.stdout, a, b) :
                                     a \in 1..(Len(processOutcome.stdout) + 1),
                                     b \in 0..Len(processOutcome.stdout)} :
                      /\ IsTrimOf(output, processOutcome.stdout)
                      /\ IsPrefixOf(callResult.message[i].t, output)
                      /\ length(callResult.message[i].t) <= ExcerptLimit
                      /\ length(output) > ExcerptLimit =>
                             callResult.message[i].t # output
               /\ \A j \in DOMAIN callResult.message :
                      callResult.message[j].part = "txt" => j = i

\* The output that did not parse is longer than 200 characters, and begins with a
\* run the excerpt cuts.
BoundedParseFailureExcerptWitness ==
    /\ callResult.category = "parseFailure"
    /\ length(Content(processOutcome.stdout)) > ExcerptLimit
    /\ Len(processOutcome.stdout) = MaxRuns
    /\ processOutcome.stdout[1].kind # "ws"
    /\ processOutcome.stdout[2].len = ExcerptLimit

----------------------------------------------------------------------------
(* Properties of the seam:transcribe-buffer handler *)

\* The invocations that are between their writeFile and their unlink.
HoldingTempFile ==
    {h \in Invocations :
        invocations[h].pc \in {"stat", "wait", "debugCopy", "transcribe", "catch", "finally"}}

Settles(req) ==
    /\ req \in requests
    /\ req.pc \in {"worker", "rejected"}
    /\ req \notin requests'

\* In this step transcribeBlob calls window.seam.saveTranscription for req.
SaveInvoked(req) == [req EXCEPT !.pc = "save"] \in requests'

\* Every saveTranscription pending after this step was pending before it or is
\* called in it for a request that settles: none is called a second time.
SavedOnlyOnSettle ==
    \A saved \in requests' :
        saved.pc = "save" =>
            \/ saved \in requests
            \/ \E req \in requests : req.seg = saved.seg /\ Settles(req)

NothingCaptures ==
    /\ intervalTimers = {}
    /\ cycleTimers = {}
    /\ summaryTimers = {}
    /\ timerRef = Null
    /\ continuousCycleTimerRef = NoTimer
    /\ summaryTimerRef = Null
    /\ streamRef = Null
    /\ recorderRef = Null
    /\ LiveStreams = {}
    /\ Recording = {}

\* C30. Device-acquisition failure: the scheduler enters the denied state only
\* when a getUserMedia of startRecording is refused, and then with no timer pending,
\* no stream held and no recorder recording; and from the denied state every step
\* leads to the denied state, with nothing capturing.  (The catch block of
\* startRecording encloses its whole body, so no exception leaves it.)
DeviceAcquisitionFailure ==
    [][/\ (status # "denied" /\ status' = "denied") =>
              (gumPending' < gumPending /\ NothingCaptures')
       /\ status = "denied" => (status' = "denied" /\ NothingCaptures')]_vars

\* The cycle loop is alive: a recorder records, or a stop event or a cycle timer
\* is pending.
CycleLoopAlive ==
    \/ Recording # {}
    \/ stopEventPending # {}
    \/ cycleTimers # {}

\* A step in which the 500 ms timer fired with a stream held and continuous mode
\* on, and no recorder started recording: the cycle failed to start.
CycleFailedToStart ==
    /\ \E t \in cycleTimers : t[1] = "next" /\ t \notin cycleTimers'
    /\ streamRef # Null /\ streamRef' = streamRef
    /\ continuousModeRef /\ continuousModeRef'
    /\ \A r \in Recorders : recState'[r] = "recording" => recState[r] = "recording"

\* C31. Capture errors inside a cycle: when the recorder of a cycle cannot be
\* created or started while continuous mode is on, nothing is dispatched for that
\* cycle and the cycle loop goes on (a next cycle is pending or running).
CaptureErrorsCaught ==
    [][CycleFailedToStart => (requests' = requests /\ CycleLoopAlive')]_vars

\* C33. Gate release: whenever the in-flight flag is set a request is
\* outstanding, and once the calls of that request settle (with a result, with any
\* failure, or with the save that follows a result) the flag is cleared.
GateRelease ==
    /\ [](transcriptionQueueRef => requests # {})
    /\ transcriptionQueueRef ~> ~transcriptionQueueRef

\* A segment was skipped at the gate, the request in flight then failed, and the
\* gate is open again.
GateReleaseWitness ==
    /\ lastOutcome = "failed"
    /\ dropped # {}
    /\ ~transcriptionQueueRef
    /\ requests = {}

\* The stop event of the recorder that stopRecording stopped is handled.
FinalStopEvent ==
    /\ recorderRef # Null
    /\ recorderRef \in stopEventPending
    /\ recorderRef \notin stopEventPending'
    /\ ~continuousModeRef
    /\ stoppedSinceStart

\* C37. Final segment on stop: when the stop event of the recorder stopped by
\* stopRecording is handled, the assembled audio takes the size test and the gate
\* like any other segment (it is dispatched when it has the minimum size and the
\* gate is open, skipped at a held gate, discarded when smaller), and the handler
\* schedules no next cycle.
FinalSegmentOnStop ==
    [][FinalStopEvent =>
          /\ (chunksRef' >= MinChunkBytes /\ ~transcriptionQueueRef) =>
                 /\ transcriptionQueueRef'
                 /\ requests' = requests \cup
                        {[seg |-> recorderRef, size |-> chunksRef', pc |-> "ipc"]}
          /\ (chunksRef' >= MinChunkBytes /\ transcriptionQueueRef) =>
                 /\ requests' = requests
                 /\ transcriptionQueueRef'
                 /\ recorderRef \in dropped'
          /\ chunksRef' < MinChunkBytes =>
                 /\ requests' = requests
                 /\ dropped' = dropped
                 /\ transcriptionQueueRef' = transcriptionQueueRef
          /\ cycleTimers' \subseteq cycleTimers]_vars

\* After stopRecording the last recorder's segment was dispatched.
FinalSegmentOnStopWitness ==
    /\ ~continuousModeRef
    /\ stoppedSinceStart
    /\ recorderRef # Null
    /\ recState[recorderRef] = "inactive"
    /\ recorderRef \notin stopEventPending
    /\ \E req \in requests : req.seg = recorderRef /\ req.pc = "ipc"

\* C38. Restart after stop: the status is 'recording' with continuous mode off
\* only between stopRecording and the handling of the stopped recorder's stop
\* event; once that event has been handled the status is idle again (and a
\* startRecording is accepted).
RestartAfterStop ==
    (status = "recording" /\ ~continuousModeRef) =>
        (recorderRef # Null /\ recorderRef \in stopEventPending)

\* C40. Cycle-timer handle: at most one cycle timer is pending, and it is the one
\* stored in continuousCycleTimerRef (so cleanup cancels every pending cycle
\* timer); and a 10 s timer that fires stops no recorder but the one of the cycle
\* that armed it.
CycleTimerHandle ==
    /\ [](Cardinality(cycleTimers) <= 1 /\ cycleTimers \subseteq {continuousCycleTimerRef})
    /\ [][\A t \in cycleTimers :
             (/\ t[1] = "stop"
              /\ t \notin cycleTimers'
              /\ continuousCycleTimerRef' = continuousCycleTimerRef
              /\ streamRef' = streamRef) =>
                 \A q \in Recorders :
                     (recState[q] = "recording" /\ recState'[q] # "recording") =>
                         q = t[2]]_vars

\* C39. Summary generation is single-flight: at most one generateSummary request
\* is in flight at any time.
SummarySingleFlight == summary.generating <= 1

----------------------------------------------------------------------------
(* Properties of the speech worker *)

\* C18. Partial-on-timeout: when the worker has exited, the deadline has passed,
\* and the callbacks delivered before the deadline carried a result that was not
\* final and neither a final result nor an error, then the exit code is 0 and the
\* payload is built from the result seen last.
PartialOnTimeout ==
    (/\ workerExit.exited
     /\ deadlinePassed
     /\ "partial" \in beforeDeadline
     /\ "final" \notin beforeDeadline
     /\ "error" \notin beforeDeadline) =>
        /\ workerExit.code = 0
        /\ workerExit.payload # NoRecognition
        /\ workerExit.payload = finalResult

\* The failures a worker can end with other than the timeout.
OtherWorkerFailures == (AppErrors \cup {"recognitionError"}) \ {"timeout"}

\* C19. Timeout-empty: when the worker has exited after a wait that ran into its
\* deadline with no callback delivered before it, it has ended as a timeout: exit
\* code not 0 and nothing on stdout; and what the Protocol makes of that is a
\* failure whose message no other failure of the worker gives.
TimeoutEmpty ==
    (workerExit.exited /\ deadlinePassed /\ beforeDeadline = {}) =>
        /\ workerExit.error = "timeout"
        /\ workerExit.code # 0
        /\ workerStdout(workerExit) = <<>>
        /\ protocolResult(workerExit).category = "processFailed"
        /\ \A error \in OtherWorkerFailures :
               protocolResult(mainCatch(error)).message
                   # protocolResult(workerExit).message

\* C20. Task always cancelled: when the worker has exited in an execution that
\* started a recognition task, task.cancel() has been performed, whatever the
\* worker ended with.
TaskAlwaysCancelled ==
    (workerExit.exited /\ taskStarted) => task = "cancelled"

\* The worker has started its task and exited as a timeout, without a payload.
TaskAlwaysCancelledWitness ==
    /\ workerExit.exited
    /\ taskStarted
    /\ task = "cancelled"
    /\ workerExit.error = "timeout"
    /\ timedOut

\* The platform has answered the request for authorization.
AuthorizationSettled ==
    authorizationRequested /\ mainPc # "authorizing"

\* C21. Authorization mapping: the worker is past ensureAuthorization (at the
\* construction of the recognizer or later, or with a task started) only when the
\* platform's status is authorized; with any other status it has exited with the
\* one failure authorizationDenied, the same for every such status, and no
\* recognition task has been created.
AuthorizationMapping ==
    /\ (mainPc \in {"recognizer", "beforeLoop", "runLoop", "afterLoop", "cancelled"}
            \/ taskStarted) =>
           (authorizationRequested /\ authorizationStatus = "authorized")
    /\ (AuthorizationSettled /\ authorizationStatus # "authorized") =>
           /\ workerExit.exited
           /\ workerExit.error = "authorizationDenied"
           /\ workerExit.code # 0
           /\ workerExit.payload = NoRecognition
           /\ ~taskStarted
           /\ task = "none"

\* The platform answered notDetermined and the worker has exited with
\* authorizationDenied.
AuthorizationMappingWitness ==
    /\ AuthorizationSettled
    /\ authorizationStatus = "notDetermined"
    /\ workerExit.exited
    /\ workerExit.error = "authorizationDenied"

\* The command line asks for help, names no audio file that exists, or names a
\* locale the platform does not list.
InputError ==
    \/ arguments.help
    \/ arguments.path # "audio.m4a"
    \/ arguments.locale = "xx-XX"

\* C22. Pre-recognition failure ordering: a recognizer that could not be made for
\* the locale ends the worker with invalidLocale, and one that is not available
\* with recognitionUnavailable, and in both cases no recognition task was started
\* (a task is started only on an available recognizer); and once parseArguments has
\* run on a command line with an input error, the worker has exited with a usage
\* error, fileNotFound or invalidLocale without authorization having been
\* requested.
PreRecognitionFailureOrdering ==
    /\ recognizer = "nil" =>
           (workerExit.exited /\ workerExit.error = "invalidLocale" /\ ~taskStarted)
    /\ recognizer = "unavailable" =>
           (workerExit.exited /\ workerExit.error = "recognitionUnavailable"
                /\ ~taskStarted)
    /\ taskStarted => recognizer = "available"
    /\ (mainPc # "start" /\ InputError) =>
           /\ workerExit.exited
           /\ workerExit.code # 0
           /\ workerExit.usage \/ workerExit.error \in {"fileNotFound", "invalidLocale"}
           /\ ~authorizationRequested
           /\ recognizer = "none"
    /\ authorizationRequested => ~InputError

\* The recognizer was made but is not available, and the worker has exited.
PreRecognitionFailureOrderingWitness ==
    /\ recognizer = "unavailable"
    /\ workerExit.exited
    /\ authorizationRequested

\* The worker has exited with a usage error: the missing path, the file that is not
\* there, or the --locale value parseArguments refused.
UsageExit ==
    /\ workerExit.exited
    /\ ~authorizationRequested
    /\ workerExit.usage \/ workerExit.error \in {"fileNotFound", "invalidLocale"}

\* The worker has exited with a runtime failure.
RuntimeExit ==
    /\ workerExit.exited
    /\ workerExit.error \in {"authorizationDenied", "recognitionUnavailable", "timeout",
                             "recognitionError"}

\* The exit code of the usage error for a missing path, and of the runtime failure
\* for a denied authorization.
UsageCode == mainCatch("missingAudioPath").code
RuntimeCode == mainCatch("authorizationDenied").code

\* C23. Exit codes: a worker that has written a payload has exited with 0; every
\* usage error exits with the one code of the missing path, every runtime failure
\* with the one code of the denied authorization, and these two codes are not 0 and
\* differ from each other.
ExitCodes ==
    /\ UsageCode # 0
    /\ RuntimeCode # 0
    /\ UsageCode # RuntimeCode
    /\ (workerExit.exited /\ workerExit.payload # NoRecognition) => workerExit.code = 0
    /\ UsageExit => workerExit.code = UsageCode
    /\ RuntimeExit => workerExit.code = RuntimeCode

\* The lines the worker writes about its progress and its failures.
IsDiagnostic(line) ==
    \/ line.kind = "[speech] ..."
    \/ \E error \in AppErrors \cup {"recognitionError"} : line.kind = errorLine(error).kind

BadInvocation ==
    /\ ~arguments.help
    /\ \/ arguments.path # "audio.m4a"
       \/ arguments.locale = "xx-XX"
       \/ arguments.timeout \in {"abc", "0", "-5"}
       \/ arguments.other

\* The message the worker gave for the way it ended: the usage text, or the line
\* of its error.
WorkerMessage(exit) ==
    IF exit.usage THEN Content(workerStdout(exit)) ELSE <<errorLine(exit.error)>>

\* C25. Usage errors exit non-zero: once parseArguments has run on a bad
\* invocation, the worker has exited with a code other than 0 without having
\* entered run, and what the Protocol makes of it is a failure whose message is
\* the worker's message and nothing else.
UsageErrorsExitNonZero ==
    (mainPc # "start" /\ BadInvocation) =>
        /\ workerExit.exited
        /\ workerExit.code # 0
        /\ ~workerExit.ran
        /\ protocolResult(workerExit).category = "processFailed"
        /\ protocolResult(workerExit).message = <<Txt(WorkerMessage(workerExit))>>

----------------------------------------------------------------------------
(* Properties of the worker's payload *)

\* The sum of the confidences of the segments at the indices I, in tenths.
RECURSIVE SumOfTenths(_, _)
SumOfTenths(segments, I) ==
    IF I = {} THEN 0
    ELSE LET i == CHOOSE i \in I : TRUE
         IN  segments[i].confidence.num + SumOfTenths(segments, I \ {i})

\* C26. Confidence aggregation: the confidence of a payload that was built is the
\* sum of its segments' confidences divided by their number, and 0 when there is no
\* segment; the payload has as many segments as the result, each with the
\* substring and the confidence of the result's segment at the same place.
ConfidenceAggregation ==
    recognitionPayload.built =>
        /\ recognitionPayload.confidence.den > 0
        /\ IF transcription = <<>>
           THEN recognitionPayload.confidence.num = 0
           ELSE recognitionPayload.confidence.num * 10 * Len(transcription)
                    = SumOfTenths(transcription, DOMAIN transcription)
                          * recognitionPayload.confidence.den
        /\ Len(recognitionPayload.segments) = Len(transcription)
        /\ \A i \in DOMAIN transcription :
               /\ recognitionPayload.segments[i].substring = transcription[i].substring
               /\ recognitionPayload.segments[i].confidence = transcription[i].confidence

\* The payload of the segments with confidences 0.8, 0.6 and 1.0 has the
\* confidence 0.8.
ConfidenceAggregationWitness ==
    /\ recognitionPayload.built
    /\ Len(transcription) = 3
    /\ transcription[1].confidence = Float(8)
    /\ transcription[2].confidence = Float(6)
    /\ transcription[3].confidence = Float(10)
    /\ transcription[1].substring # transcription[2].substring
    /\ recognitionPayload.confidence.num * 10 = 8 * recognitionPayload.confidence.den

----------------------------------------------------------------------------
(* Properties of the worker binary's resolution *)

\* The paths the executable can be at, in the order of the claim: the override when
\* one is given, the packaged path, the development path.
Candidates ==
    (IF environment.SEAM_SPEECH_BIN \in {Undefined, ""} THEN <<>>
     ELSE <<environment.SEAM_SPEECH_BIN>>)
        \o <<PackagedPath, DevelopmentPath>>

\* C28. Worker path resolution: the request fails with binary-not-found only if
\* none of the candidates exists, and otherwise the binary it goes on with is the
\* first candidate in the order that exists.
WorkerPathResolution ==
    /\ resolution = "binaryNotFound" =>
           \A i \in DOMAIN Candidates : Candidates[i] \notin environment.files
    /\ resolution = "spawn" =>
           \E i \in DOMAIN Candidates :
               /\ binaryPath = Candidates[i]
               /\ Candidates[i] \in environment.files
               /\ \A j \in 1..(i - 1) : Candidates[j] \notin environment.files

\* C28 as the code has it: the path taken is the first in the order that applies,
\* the override when it is set and not empty, the packaged path when the
\* application is packaged, the development path otherwise; the request fails with
\* binary-not-found exactly when no file is at the path taken, whatever is at the
\* other paths.
WorkerPathTaken ==
    /\ binaryPath # Unresolved =>
           /\ environment.SEAM_SPEECH_BIN \notin {Undefined, ""} =>
                  binaryPath = environment.SEAM_SPEECH_BIN
           /\ (environment.SEAM_SPEECH_BIN \in {Undefined, ""} /\ environment.isPackaged) =>
                  binaryPath = PackagedPath
           /\ (environment.SEAM_SPEECH_BIN \in {Undefined, ""} /\ ~environment.isPackaged) =>
                  binaryPath = DevelopmentPath
    /\ resolution # "none" =>
           (resolution = "binaryNotFound" <=> binaryPath \notin environment.files)

\* The override names a file that is not there while the development build
\* exists, and the request has failed with binary-not-found.
WorkerPathTakenWitness ==
    /\ environment.SEAM_SPEECH_BIN = OverridePath
    /\ ~environment.isPackaged
    /\ environment.files = {DevelopmentPath}
    /\ resolution = "binaryNotFound"

----------------------------------------------------------------------------
(* Properties of extensionFromMime *)

\* The spellings of a word.
Spellings(word) ==
    CASE word = "wav" -> {"wav", "WAV"}
      [] word = "m4a" -> {"m4a", "M4A"}
      [] word = "aac" -> {"aac", "AAC"}
      [] word = "mp4" -> {"mp4", "Mp4"}
      [] word = "webm" -> {"webm", "WebM"}
      [] word = "ogg" -> {"ogg", "OGG"}

\* The MIME type has the word in some spelling.
Contains(word) == \E i \in DOMAIN mimeType : mimeType[i] \in Spellings(word)

\* The words in the order of their precedence, and the extension each stands for.
Precedence ==
    <<[words |-> {"wav"}, extension |-> "wav"],
      [words |-> {"m4a", "aac"}, extension |-> "m4a"],
      [words |-> {"mp4"}, extension |-> "m4a"],
      [words |-> {"webm"}, extension |-> "webm"],
      [words |-> {"ogg"}, extension |-> "ogg"]>>

\* The MIME type has a word of the entry at place i.
Matches(i) == \E word \in Precedence[i].words : Contains(word)

\* C29. Extension selection: for every MIME type extensionFromMime gives one of
\* wav, m4a, webm, ogg: the extension of the first entry in the precedence wav,
\* m4a/aac, mp4, webm, ogg one of whose words the type contains in any spelling,
\* and m4a when it contains none.
ExtensionSelection ==
    extension # NoExtension =>
        /\ extension \in {"wav", "m4a", "webm", "ogg"}
        /\ \A i \in DOMAIN Precedence :
               (Matches(i) /\ \A j \in 1..(i - 1) : ~Matches(j)) =>
                   extension = Precedence[i].extension
        /\ (\A i \in DOMAIN Precedence : ~Matches(i)) => extension = "m4a"

\* A type with OGG and then WAV in upper case has the extension wav.
ExtensionSelectionWitness ==
    /\ mimeType = <<"OGG", "WAV">>
    /\ extension = "wav"

\* C36. Success requires a real zero exit: transcribeAudioFile returns a result
\* only when the worker exited with code 0; a worker ended by a signal (no exit
\* code) is not reported as success.
SuccessRequiresZeroExit ==
    (callPc = "done" /\ callResult.category = "success") =>
        /\ processOutcome.closed
        /\ ~processOutcome.signal
        /\ processOutcome.exitCode = 0

----------------------------------------------------------------------------
(* Properties of the API key check *)

\* The name of each provider as the messages spell it.
DisplayName(provider) ==
    IF provider = "gemini" THEN "Gemini"
    ELSE IF provider = "claude" THEN "Claude" ELSE "ChatGPT"

\* C32. API-key validation: for each of the three providers validateAPIKey throws
\* "<Provider> API key is not configured" exactly when the key is undefined or the
\* empty string and returns for every other key; and a configuration returned by
\* getAIProviderConfig carries a key that is a non-empty string.
ApiKeyValidation ==
    /\ keyCheck.outcome \notin {<<"unused">>, <<"pending">>} =>
          /\ (keyCheck.outcome[1] = "Error") <=>
                 (keyCheck.apiKey = JsUndefined \/ keyCheck.apiKey = Str(""))
          /\ keyCheck.outcome[1] = "Error" =>
                 /\ keyCheck.outcome[2] = DisplayName(keyCheck.provider)
                 /\ keyCheck.outcome[3] = " API key is not configured"
          /\ keyCheck.outcome[1] # "Error" => keyCheck.outcome = <<"returned">>
    /\ aiProviderConfig.returned =>
          /\ aiProviderConfig.apiKey.kind = "string"
          /\ aiProviderConfig.apiKey.text # ""
          /\ aiProviderConfig.provider.text \in AIProviders

\* validateAPIKey threw for the empty string, and getAIProviderConfig returned a
\* configuration although the key of another provider is missing.
ApiKeyValidationWitness ==
    /\ keyCheck.apiKey = Str("")
    /\ keyCheck.provider = "chatgpt"
    /\ keyCheck.outcome[1] = "Error"
    /\ aiProviderConfig.returned
    /\ aiProviderConfig.provider = Str("claude")
    /\ settings.gemini_api_key = Str("")

\* C34. Worker termination: once a recognition task has been started the worker
\* exits, whether or not a callback ever fires, in every ordering of the waiter's
\* CFRunLoopStop and the main thread's CFRunLoopRun.
WorkerTermination == taskStarted ~> workerExit.exited

====
